---- MODULE Spec2Model ----
(***************************************************************************)
(* State-machine model of the voice coordinator.                           *)
(*                                                                         *)
(* The code-generation agent of backend/src/agent/codeAgent.js: the        *)
(* bounded model/tool loop, the tool dispatch, the per-call repository     *)
(* checkouts in temporary directories, the validation of the final answer  *)
(* and the per-file patch generation (Spec, FairSpec, UnboundedCloneSpec), *)
(* and the directory walk of list_repo_files (WalkSpec).                   *)
(*                                                                         *)
(* One WebSocket connection of the backend: the recognition streams and    *)
(* the storing of final transcripts (RecognitionSpec), and the handling of *)
(* generate_code messages (GenerationSpec, GenerationFairSpec).            *)
(*                                                                         *)
(* The extension host and its webview during code generation (ClientSpec,  *)
(* ClientFairSpec).                                                        *)
(*                                                                         *)
(* The AudioRecorder of the extension with its WebSockets (RecorderSpec,   *)
(* RecorderFairSpec), the pool of the backend's database module            *)
(* (DatabaseSpec) and savePatches of the extension (PatchesSpec).          *)
(***************************************************************************)
EXTENDS Naturals, Integers, Sequences, FiniteSets, TLC

VARIABLES
    pc,             \* position of runAgentLoop
    iteration,      \* loop counter of runAgentLoop
    messages,       \* the message log
    toolCalls,      \* message.tool_calls of the round being processed
    idx,            \* position of processToolCalls in toolCalls
    toolResponses,  \* the local array of processToolCalls
    acc,            \* the repository access of each slot (0: tool dispatch, i: file i)
    tasks,          \* the generateFilePatch promises started by generatePatches
    fs,             \* the temporary directories that exist on disk
    now,            \* Date.now()
    outcome,        \* what runAgentLoop returned or threw
    deviations,     \* environment choices taken that are not the plain run
    clones,         \* cloneRepository calls made so far
    nextId,         \* next tool-call id the provider hands out
    conversations,  \* the transcript generateCodeFromConversation was called with
    settled,        \* the generateFilePatch promises in the order they settled
    warnings        \* console.warn calls of cleanupTempDir so far

\* the state of one invocation of the agent
agentVars == <<pc, iteration, messages, toolCalls, idx, toolResponses, acc, tasks,
               fs, now, outcome, deviations, clones, nextId, conversations,
               settled, warnings>>

VARIABLES
    sock,            \* the server's WebSocket of one connection: "open" or "closed"
    connectionInfo,  \* ConnectionState.connectionInfo
    recognizeStream, \* ConnectionState.recognizeStream (0: null)
    streams,         \* the recognition streams created on the connection
    heard,           \* the recognition results the streams delivered
    rows,            \* the rows of table user_transcripts written by this connection
    handlers,        \* the handleCodeGeneration calls of the connection
    openaiClient,    \* the module-level client of codeAgent.js (FALSE: null)
    env,             \* what the server process was started with
    received         \* control messages received on the connection so far

\* the state of one server connection
serverVars == <<sock, connectionInfo, recognizeStream, streams, heard, rows,
                handlers, openaiClient, env, received>>

VARIABLES
    webview,         \* the webview script's state: loading, button, isConnected
    commands,        \* generateCode commands posted by the webview, not yet handled
    posted,          \* every message the extension posted to the webview
    seen,            \* how many of them the webview has handled
    ws,              \* the socket of the extension's AudioRecorder
    wire,            \* messages of the backend on their way to the extension
    awaiting,        \* generate_code messages the backend has not answered yet
    pendingAudio,    \* pendingAudio of createCodeGenerationCallback (0: null)
    results,         \* code_generation_result messages the backend sent so far
    clicks           \* what the user did in the webview so far

\* the state of the extension host and its webview
clientVars == <<webview, commands, posted, seen, ws, wire, awaiting,
                pendingAudio, results, clicks>>

VARIABLES
    walk             \* one call of getAllFiles on a checkout

walkVars == <<walk>>

\* The AudioRecorder of the extension host (audioRecorder.ts): recorder holds
\* the object's fields, sockets the WebSocket objects it created (ws is an
\* index into it, 0 for null), mics the microphone instances it created,
\* issued the operations called on it with the state of their promise, and
\* frames the text messages sent on the sockets.
VARIABLES recorder, sockets, mics, issued, frames
recorderVars == <<recorder, sockets, mics, issued, frames>>

\* The database module of the backend (db/database.js): pool is the
\* module's variable (an index into pools, 0 for null), pools the Pool
\* objects created, dbCalls the calls made on the module.
VARIABLES pool, pools, dbCalls
databaseVars == <<pool, pools, dbCalls>>

\* One savePatches call of the extension (utils/fileOperations.ts)
VARIABLES patches
patchVars == <<patches>>

otherVars == <<recorderVars, databaseVars, patchVars>>

vars == <<agentVars, serverVars, clientVars, walkVars, otherVars, otherVars>>

----------------------------------------------------------------------------
(* Program constants *)

\* runAgentLoop(..., maxIterations = 10)
MaxIterations == 10

\* message.content.substring(0, 200)
SummaryLimit == 200

(* Bounds of the model *)

\* how many environment choices of one run may differ from the plain run, in
\* which the transcript has one entry, every round is one successful
\* list_repo_files call and the final answer is a result without files: another
\* transcript, a round with other tool calls, another final answer, a failing
\* clone, listing, read or removal, a repository access of another invocation
MaxDeviations == 1

Min(a, b) == IF a < b THEN a ELSE b

----------------------------------------------------------------------------
(* Inputs: what the model provider may answer *)

NoDir == -1

ToolCall(name, arguments) == [name |-> name, arguments |-> arguments]

\* tool_calls of one assistant message, before the provider's ids are attached.
\* arguments: "empty" is '' or '{}', "null" is the JSON text null, "invalid" is a
\* text that is not JSON, and a path kind is {"filePath": p} for a path p of
\* that kind: "present" is a file of the branch outside any dot-directory,
\* "absent" a relative path that names nothing, "dotfile" a file under a
\* dot-entry of the checkout (.git/config), "dotdot" a path that climbs out of
\* the checkout to a file of the host (../../../etc/hostname), "absolute" an
\* absolute path of a file of the host (/etc/hostname).
PathKinds == {"present", "absent", "dotfile", "dotdot", "absolute"}

PlainBatch == << ToolCall("list_repo_files", "empty") >>

ToolCallBatches ==
    { PlainBatch,
      << ToolCall("get_file_content", "present") >>,
      << ToolCall("get_file_content", "absent") >>,
      << ToolCall("get_file_content", "empty") >>,
      << ToolCall("get_file_content", "null") >>,
      << ToolCall("get_file_content", "dotfile"), ToolCall("get_file_content", "dotdot"),
         ToolCall("get_file_content", "absolute") >>,
      << ToolCall("run_shell", "empty") >>,
      << ToolCall("list_repo_files", "invalid") >>,
      << ToolCall("list_repo_files", "empty"), ToolCall("get_file_content", "present") >>,
      << ToolCall("run_shell", "empty"), ToolCall("get_file_content", "invalid") >>,
      << ToolCall("get_file_content", "absent"), ToolCall("run_shell", "invalid") >> }

\* one entry of result.files: "present" is a file of the branch with other
\* content than proposed, "same" a file of the branch whose content equals the
\* proposed one, "absent" a new file, "bad" an entry whose new_content makes
\* createPatch throw, "null" the JSON value null in place of the entry
FileEntry(filename, kind) == [filename |-> filename, kind |-> kind]

FileLists ==
    { << >>,
      << FileEntry("a", "present") >>,
      << FileEntry("a", "absent") >>,
      << FileEntry("a", "same") >>,
      << FileEntry("a", "bad") >>,
      << FileEntry("a", "null") >>,
      << FileEntry("a", "present"), FileEntry("b", "present") >>,
      << FileEntry("a", "bad"), FileEntry("b", "absent") >>,
      << FileEntry("a", "present"), FileEntry("b", "null") >>,
      << FileEntry("a", "null"), FileEntry("b", "present") >> }

Slots == 0..2
FileSlots == 1..2

\* message.content of an assistant message without tool calls.
\* text: "result" is a JSON object with summary and files, "no_summary" and
\* "no_files" lack that member, "empty_object" is {}, "json_null" is the JSON
\* text null, "not_json" does not parse, "empty" is the empty string,
\* "fenced_result" is a result object inside a code fence or prose without
\* braces, "result_then_braces" a result object followed by text with braces,
\* "empty_summary" a result object whose summary is "", "number_summary" one
\* whose summary is a number other than 0.
Content(tag, text, len, files) == [tag |-> tag, text |-> text, len |-> len, files |-> files]

NullContent == Content("null", "none", 0, << >>)

PlainAnswer == Content("string", "result", 150, << >>)

FinalContents ==
    { Content("string", "result", 150, f) : f \in FileLists }
    \cup { Content("string", t, l, << >>) :
             t \in {"not_json", "no_summary", "no_files", "json_null"},
             l \in {150, SummaryLimit + 50} }
    \cup { Content("string", t, 150, f) :
             t \in {"fenced_result", "empty_summary"},
             f \in {<< >>, << FileEntry("a", "present") >>} }
    \cup { Content("string", t, 150, << >>) : t \in {"result_then_braces", "number_summary"} }
    \cup { Content("string", "empty", 0, << >>), NullContent }

----------------------------------------------------------------------------
(* Values *)

Msg(role, calls, id, content) ==
    [role |-> role, tool_calls |-> calls, tool_call_id |-> id, content |-> content]

NoId == 0

\* one transcript entry, and the transcripts an invocation may be called with
Conv(timestamp, username, transcription) ==
    [timestamp |-> timestamp, username |-> username, transcription |-> transcription]

PlainTranscript == << Conv(1, "alice", "add a health endpoint") >>

Transcripts ==
    { << >>,
      PlainTranscript,
      << Conv(1, "alice", "add a health endpoint"), Conv(2, "bob", "return 200") >> }

\* formatConversations: one line "[timestamp] username: transcription" per
\* entry, in order; the lines stand for their join with newlines
formatConversations(convs) ==
    [i \in 1..Len(convs) |->
        << convs[i].timestamp, convs[i].username, convs[i].transcription >>]

\* a prompt text: its fixed wording and the lines put into it
Prompt(wording, lines) ==
    [tag |-> "string", text |-> wording, len |-> 0, files |-> << >>, lines |-> lines]

SystemMessage == Msg("system", << >>, NoId, Content("string", "system_prompt", 0, << >>))

UserMessage(convs) ==
    Msg("user", << >>, NoId, Prompt("user_prompt", formatConversations(convs)))

\* a tool result object and its JSON.stringify text, the content of a tool message
ToolResult(tag, message) == Content(tag, message, 0, << >>)

Summary(src, len) == [src |-> src, len |-> len]

Outcome(kind, error, summary, files) ==
    [kind |-> kind, error |-> error, summary |-> summary, files |-> files]

NoOutcome == Outcome("none", "none", Summary("none", 0), << >>)

Patch(filename, text) == [filename |-> filename, patch |-> text]

IdleAccess ==
    [pc |-> "idle", op |-> "none", path |-> "none", dir |-> NoDir,
     tempDir |-> NoDir, res |-> "none"]

----------------------------------------------------------------------------
(* Pure functions of codeAgent.js *)

\* JSON.parse(toolCall.function.arguments || '{}'): the parsed value, or a throw
ParseToolArgs(arguments) ==
    CASE arguments = "invalid" -> [threw |-> TRUE, value |-> "none"]
      [] arguments = "empty"   -> [threw |-> FALSE, value |-> "object"]
      [] arguments = "null"    -> [threw |-> FALSE, value |-> "null"]
      [] OTHER                 -> [threw |-> FALSE, value |-> arguments]

\* toolArgs.filePath: undefined on an object without the member
FilePathOf(value) == IF value \in PathKinds THEN value ELSE "undefined"

\* existsSync(join(repoPath, filePath)): join resolves '..' segments, so a
\* climbing path names the file of the host, and it appends an absolute path
\* to repoPath, where it names nothing; no check keeps the path in the checkout
JoinedPathExists(path) == path \in {"present", "dotfile", "dotdot"}

\* getAllFiles skips every entry whose name starts with a dot and walks only
\* below repoPath: the paths list_repo_files reports
getAllFilesReports(path) == path = "present"

\* the branch executeToolCall takes before anything is awaited: a repository
\* access to start, a result at once (unknown tool), or a throw inside its try
\* (toolArgs.filePath on null)
ExecuteToolCallStart(toolName, value) ==
    CASE toolName = "list_repo_files" ->
            [step |-> "access", op |-> "list", path |-> "none", message |-> "none"]
      [] toolName = "get_file_content" /\ value = "null" ->
            [step |-> "throw", op |-> "none", path |-> "none",
             message |-> "Cannot read properties of null"]
      [] toolName = "get_file_content" ->
            [step |-> "access", op |-> "get", path |-> FilePathOf(value), message |-> "none"]
      [] OTHER ->
            [step |-> "result", op |-> "none", path |-> "none", message |-> "Unknown tool"]

\* executeToolCall without its catch: the throw leaves the dispatch
ExecuteToolCallThrewUncaught(message) ==
    [raised |-> TRUE, result |-> ToolResult("error", message)]

\* the catch of executeToolCall: a throw becomes the result {error: message}

ExecuteToolCallThrew(message) ==
    [raised |-> FALSE, result |-> ToolResult("error", message)]

\* the message listRepoFiles / getFileContent throw with
AccessError(op, res) ==
    IF op = "list" THEN
        (IF res = "CloneFailed" THEN "Failed to list files: clone failed"
                                ELSE "Failed to list files: readdir failed")
    ELSE CASE res = "CloneFailed"  -> "Failed to get file content: clone failed"
           [] res = "FileNotFound" -> "Failed to get file content: File not found"
           [] res = "BadPath"      -> "Failed to get file content: path must be a string"
           [] OTHER                -> "Failed to get file content: read failed"

Succeeded(res) == res \in {"files", "content"}

\* what executeToolCall returns once the access it awaited has settled
ExecuteToolCallSettled(a) ==
    IF Succeeded(a.res)
    THEN [raised |-> FALSE, result |-> ToolResult(a.res, "none")]
    ELSE ExecuteToolCallThrew(AccessError(a.op, a.res))

\* content || '{}'
ContentStr(content) ==
    IF content.tag = "null" \/ content.text = "empty"
    THEN Content("string", "empty_object", 2, << >>)
    ELSE content

\* parseAgentResponse parsing the text as it is, without the regular expression
WholeText(text) == text

\* contentStr.match(/\{[\s\S]*\}/): the span from the first { to the last },
\* which drops the prose or code fence around an object; the span of a result
\* followed by text with braces runs to the last brace of that text; a text
\* without braces has no match and is parsed whole
MatchedSpan(text) == IF text = "fenced_result" THEN "result" ELSE text

\* !value of JavaScript on the summary member
Truthy(summary) == summary \in {"text", "number"}

\* JSON.parse of the matched span, or of the whole text when nothing matches:
\* whether it threw, whether the value is null, what its summary member is
\* ("absent", "empty" for "", "text", "number") and whether files is an array
Parsed(threw, isNull, summary, files) ==
    [threw |-> threw, isNull |-> isNull, summary |-> summary, files |-> files]

JSONParseContent(c) ==
    LET span == MatchedSpan(c.text) IN
    CASE span \in {"result", "empty_summary", "number_summary"} ->
            Parsed(FALSE, FALSE,
                   CASE span = "result" -> "text"
                     [] span = "empty_summary" -> "empty"
                     [] OTHER -> "number",
                   TRUE)
      [] span = "no_summary"   -> Parsed(FALSE, FALSE, "absent", TRUE)
      [] span = "no_files"     -> Parsed(FALSE, FALSE, "text", FALSE)
      [] span = "empty_object" -> Parsed(FALSE, FALSE, "absent", FALSE)
      [] span = "json_null"    -> Parsed(FALSE, TRUE, "absent", FALSE)
      [] OTHER                 -> Parsed(TRUE, FALSE, "absent", FALSE)

\* parseAgentResponse without the check of summary and files
parseAgentResponseLax(content) ==
    LET v == JSONParseContent(ContentStr(content)) IN
    CASE v.threw  -> [threw |-> TRUE, error |-> "SyntaxError", files |-> << >>]
      [] v.isNull -> [threw |-> TRUE, error |-> "TypeError", files |-> << >>]
      [] OTHER    -> [threw |-> FALSE, error |-> "none", files |-> content.files]

\* parseAgentResponse: the validated result, or the error it throws
parseAgentResponse(content) ==
    LET v == JSONParseContent(ContentStr(content)) IN
    CASE v.threw  -> [threw |-> TRUE, error |-> "SyntaxError", files |-> << >>]
      [] v.isNull -> [threw |-> TRUE, error |-> "TypeError", files |-> << >>]
      [] ~Truthy(v.summary) \/ ~v.files ->
            [threw |-> TRUE, error |-> "Invalid response format", files |-> << >>]
      [] OTHER    -> [threw |-> FALSE, error |-> "none", files |-> content.files]

\* the catch of runAgentLoop around parsing and patch generation
DegradedResult(content) ==
    Outcome("returned", "none",
            IF content.tag = "string"
            THEN Summary("content", Min(content.len, SummaryLimit))
            ELSE Summary("Code generation completed", 0),
            << >>)

\* a loop without its bound
LoopNeverEnds(i) == TRUE

\* the loop condition of runAgentLoop
LoopContinues(i) == i < MaxIterations

\* cleanupTempDir returns at once unless the directory is set and exists
CleanupRemoves(tempDir, dirs) == tempDir # NoDir /\ tempDir \in dirs
----------------------------------------------------------------------------
(* The state after generateCodeFromConversation built the message log *)

\* null and undefined of the server's JavaScript values
Null == "null"
Undefined == "undefined"

\* ConnectionState.connectionInfo when it is null
NullInfo == [repoId |-> Null, userName |-> Null, branch |-> Null]

\* no server connection, no extension host and no directory walk take part
ServerIdle ==
    /\ sock = "closed"
    /\ connectionInfo = NullInfo
    /\ recognizeStream = 0
    /\ streams = << >>
    /\ heard = << >>
    /\ rows = << >>
    /\ handlers = << >>
    /\ openaiClient = FALSE
    /\ env = [OPENAI_API_KEY |-> FALSE, speechClient |-> FALSE,
              textToSpeechClient |-> FALSE]
    /\ received = 0

ClientIdle ==
    /\ webview = [loading |-> FALSE, button |-> FALSE, isConnected |-> FALSE]
    /\ commands = 0
    /\ posted = << >>
    /\ seen = 0
    /\ ws = "none"
    /\ wire = << >>
    /\ awaiting = 0
    /\ pendingAudio = 0
    /\ results = 0
    /\ clicks = 0

WalkIdle == walk = Null

RecorderIdle ==
    /\ recorder = [isRecording |-> FALSE, micInstance |-> 0,
                   micInputStream |-> 0, ws |-> 0, connectionInfo |-> NullInfo]
    /\ sockets = << >>
    /\ mics = << >>
    /\ issued = << >>
    /\ frames = << >>

DatabaseIdle ==
    /\ pool = 0
    /\ pools = << >>
    /\ dbCalls = << >>

PatchesIdle == patches = Null

OthersIdle == RecorderIdle /\ DatabaseIdle /\ PatchesIdle

Init ==
    /\ ServerIdle
    /\ ClientIdle
    /\ WalkIdle
    /\ OthersIdle
    /\ pc = "AwaitingModel"
    /\ iteration = 0
    /\ conversations \in Transcripts
    /\ messages = << SystemMessage, UserMessage(conversations) >>
    /\ toolCalls = << >>
    /\ idx = 0
    /\ toolResponses = << >>
    /\ acc = [s \in Slots |-> IdleAccess]
    /\ tasks = << >>
    /\ fs = {}
    /\ now = 0
    /\ outcome = NoOutcome
    /\ deviations = IF conversations = PlainTranscript THEN 0 ELSE 1
    /\ clones = 0
    /\ nextId = 1
    /\ settled = << >>
    /\ warnings = 0

\* an environment choice that costs one deviation, or none
Spend(cost) ==
    /\ deviations + cost <= MaxDeviations
    /\ deviations' = deviations + cost

----------------------------------------------------------------------------
(* Repository accesses: cloneRepository, listRepoFiles, getFileContent *)

\* cloneRepository up to its await: tempDir is named after the clock
StartAccess(op, path) ==
    [pc |-> "cloning", op |-> op, path |-> path, dir |-> now,
     tempDir |-> NoDir, res |-> "none"]

\* listRepoFiles / getFileContent returning or throwing without cleanupTempDir
AfterWorkNoCleanup(a, res, dirs) == [a EXCEPT !.res = res, !.pc = "done"]

\* the work of an access is over with result res: cleanupTempDir(tempDir), which
\* awaits rm only when the directory is set and exists
AfterWork(a, res, dirs) ==
    [a EXCEPT !.res = res,
              !.pc = IF CleanupRemoves(a.tempDir, dirs) THEN "removing" ELSE "done"]

\* git clone succeeded: the checkout exists, tempDir is assigned and the body of
\* listRepoFiles / getFileContent runs up to its next await
CloneSucceeds(s) ==
    LET a  == acc[s]
        a1 == [a EXCEPT !.tempDir = a.dir]
        dirs == fs \cup {a.dir}
    IN
    /\ a.pc = "cloning"
    /\ fs' = dirs
    /\ now' = now + 1
    /\ acc' = [acc EXCEPT ![s] =
                 CASE a.op = "list"          -> [a1 EXCEPT !.pc = "listing"]
                   [] a.path = "undefined"  -> AfterWork(a1, "BadPath", dirs)
                   [] ~JoinedPathExists(a.path) -> AfterWork(a1, "FileNotFound", dirs)
                   [] OTHER                 -> [a1 EXCEPT !.pc = "reading"]]
    /\ UNCHANGED <<pc, iteration, messages, toolCalls, idx, toolResponses, tasks,
                   outcome, deviations, clones, nextId, conversations,
                   serverVars, clientVars, walkVars, otherVars, settled,
                   warnings>>

\* git clone failed (network, unknown branch, or a destination another clone
\* already filled): tempDir is still null in the catch, so nothing is removed;
\* the directory git created may be left behind
CloneFails(s, leftover) ==
    LET a == acc[s] IN
    /\ a.pc = "cloning"
    /\ IF a.dir \in fs
       THEN leftover = FALSE /\ UNCHANGED deviations
       ELSE Spend(1)
    /\ fs' = IF leftover THEN fs \cup {a.dir} ELSE fs
    /\ now' = now + 1
    /\ acc' = [acc EXCEPT ![s] = AfterWork(a, "CloneFailed", fs')]
    /\ UNCHANGED <<pc, iteration, messages, toolCalls, idx, toolResponses, tasks,
                   outcome, clones, nextId, conversations,
                   serverVars, clientVars, walkVars, otherVars, settled, warnings>>

\* getAllFiles settled: it fails when the checkout has been removed meanwhile,
\* or on a readdir error
ListSettles(s, ok) ==
    LET a == acc[s] IN
    /\ a.pc = "listing"
    /\ ok => a.tempDir \in fs
    /\ IF ok \/ a.tempDir \notin fs THEN UNCHANGED deviations ELSE Spend(1)
    /\ acc' = [acc EXCEPT ![s] = AfterWork(a, IF ok THEN "files" ELSE "ListFailed", fs)]
    /\ UNCHANGED <<pc, iteration, messages, toolCalls, idx, toolResponses, tasks,
                   fs, now, outcome, clones, nextId, conversations,
                   serverVars, clientVars, walkVars, otherVars, settled,
                   warnings>>

\* readFile settled
ReadSettles(s, ok) ==
    LET a == acc[s] IN
    /\ a.pc = "reading"
    /\ ok => a.tempDir \in fs
    /\ IF ok \/ a.tempDir \notin fs THEN UNCHANGED deviations ELSE Spend(1)
    /\ acc' = [acc EXCEPT ![s] = AfterWork(a, IF ok THEN "content" ELSE "ReadFailed", fs)]
    /\ UNCHANGED <<pc, iteration, messages, toolCalls, idx, toolResponses, tasks,
                   fs, now, outcome, clones, nextId, conversations,
                   serverVars, clientVars, walkVars, otherVars, settled,
                   warnings>>

\* cleanupTempDir letting the error of rm through to the enclosing operation
AfterCleanupPropagates(a, ok) ==
    [a EXCEPT !.pc = "done", !.res = IF ok THEN a.res ELSE "RmFailed"]

\* cleanupTempDir after its await: the catch swallows the error of rm, so the
\* enclosing operation goes on with the result or error it had
AfterCleanup(a, ok) == [a EXCEPT !.pc = "done"]

\* rm settled: a failure is logged by console.warn and the directory stays
\* (a failing removal after a read of a path that names nothing is not counted
\* again)
RmSettles(s, ok) ==
    LET a == acc[s] IN
    /\ a.pc = "removing"
    /\ IF ok \/ a.res = "FileNotFound" THEN UNCHANGED deviations ELSE Spend(1)
    /\ fs' = IF ok THEN fs \ {a.tempDir} ELSE fs
    /\ warnings' = IF ok THEN warnings ELSE warnings + 1
    /\ acc' = [acc EXCEPT ![s] = AfterCleanup(a, ok)]
    /\ UNCHANGED <<pc, iteration, messages, toolCalls, idx, toolResponses, tasks,
                   now, outcome, clones, nextId, conversations,
                   serverVars, clientVars, walkVars, otherVars, settled>>

\* a concurrently running invocation cloned for an access of its own in the
\* millisecond in which a tool call of this one did, so cloneRepository gave
\* both the same directory; its access ends while this one uses the checkout,
\* and its cleanupTempDir removes the directory
OtherInvocationCleans ==
    /\ pc = "ExecutingTools"
    /\ acc[0].pc \in {"listing", "reading"}
    /\ acc[0].tempDir \in fs
    /\ Spend(1)
    /\ fs' = fs \ {acc[0].tempDir}
    /\ UNCHANGED <<pc, iteration, messages, toolCalls, idx, toolResponses, acc, tasks,
                   now, outcome, clones, nextId, conversations,
                   serverVars, clientVars, walkVars, otherVars, settled, warnings>>
----------------------------------------------------------------------------
(* runAgentLoop, processToolCalls, executeToolCall *)

WithIds(batch, first) ==
    [i \in 1..Len(batch) |->
        [id |-> first + i - 1, name |-> batch[i].name, arguments |-> batch[i].arguments]]

\* runAgentIteration returned a message with tool calls: it is pushed and
\* processToolCalls starts on it
ModelRequestsTools(batch) ==
    /\ pc = "AwaitingModel"
    /\ Spend(IF batch = PlainBatch THEN 0 ELSE 1)
    /\ messages' = Append(messages, Msg("assistant", WithIds(batch, nextId), NoId, NullContent))
    /\ nextId' = nextId + Len(batch)
    /\ pc' = "ExecutingTools"
    /\ toolCalls' = WithIds(batch, nextId)
    /\ idx' = 1
    /\ toolResponses' = << >>
    /\ UNCHANGED <<iteration, acc, tasks, fs, now, outcome, clones, conversations,
                   serverVars, clientVars, walkVars, otherVars,
                   settled, warnings>>

\* processToolCalls putting each new response in front of the earlier ones
TakeToolResultReversed(toolCall, r) ==
    IF r.raised
    THEN /\ pc' = "Failed"
         /\ outcome' = Outcome("thrown", r.result.text, Summary("none", 0), << >>)
         /\ UNCHANGED <<toolResponses, idx>>
    ELSE /\ toolResponses' = << Msg("tool", << >>, toolCall.id, r.result) >> \o toolResponses
         /\ idx' = idx + 1
         /\ UNCHANGED <<pc, outcome>>

\* what processToolCalls does with the value executeToolCall settled with
TakeToolResult(toolCall, r) ==
    IF r.raised
    THEN /\ pc' = "Failed"
         /\ outcome' = Outcome("thrown", r.result.text, Summary("none", 0), << >>)
         /\ UNCHANGED <<toolResponses, idx>>
    ELSE /\ toolResponses' = Append(toolResponses, Msg("tool", << >>, toolCall.id, r.result))
         /\ idx' = idx + 1
         /\ UNCHANGED <<pc, outcome>>

\* one pass of the for loop of processToolCalls up to the await inside
\* executeToolCall: the arguments are parsed outside any try
ProcessToolCall ==
    /\ pc = "ExecutingTools"
    /\ idx \in 1..Len(toolCalls)
    /\ acc[0].pc = "idle"
    /\ LET toolCall == toolCalls[idx]
           parsed   == ParseToolArgs(toolCall.arguments)
           start    == ExecuteToolCallStart(toolCall.name, parsed.value)
       IN
       IF parsed.threw
       THEN /\ pc' = "Failed"
            /\ outcome' = Outcome("thrown", "SyntaxError", Summary("none", 0), << >>)
            /\ UNCHANGED <<toolResponses, idx, acc, clones>>
       ELSE CASE start.step = "access" ->
                    /\ acc' = [acc EXCEPT ![0] = StartAccess(start.op, start.path)]
                    /\ clones' = clones + 1
                    /\ UNCHANGED <<pc, outcome, toolResponses, idx>>
              [] start.step = "throw" ->
                    /\ TakeToolResult(toolCall, ExecuteToolCallThrew(start.message))
                    /\ UNCHANGED <<acc, clones>>
              [] OTHER ->
                    /\ TakeToolResult(toolCall,
                           [raised |-> FALSE, result |-> ToolResult("error", start.message)])
                    /\ UNCHANGED <<acc, clones>>
    /\ UNCHANGED <<iteration, messages, toolCalls, tasks, fs, now, deviations, nextId,
                   conversations,
                   serverVars, clientVars, walkVars, otherVars, settled, warnings>>

\* the access executeToolCall awaited has settled: its result, or the error it
\* threw, becomes the tool message answering the call
ToolCallSettles ==
    /\ pc = "ExecutingTools"
    /\ idx \in 1..Len(toolCalls)
    /\ acc[0].pc = "done"
    /\ TakeToolResult(toolCalls[idx], ExecuteToolCallSettled(acc[0]))
    /\ acc' = [acc EXCEPT ![0] = IdleAccess]
    /\ UNCHANGED <<iteration, messages, toolCalls, tasks, fs, now, deviations,
                   clones, nextId, conversations,
                   serverVars, clientVars, walkVars, otherVars, settled, warnings>>

\* a loop that sends only the prompts and the latest tool responses
PushOntoPrompts(log, responses) == SubSeq(log, 1, 2) \o responses

\* messages.push(...toolResponses)
Push(log, responses) == log \o responses

\* processToolCalls returned: the responses are pushed, the round is over and
\* the loop condition decides between the next request and the final throw
FinishRound ==
    /\ pc = "ExecutingTools"
    /\ idx = Len(toolCalls) + 1
    /\ acc[0].pc = "idle"
    /\ messages' = Push(messages, toolResponses)
    /\ iteration' = iteration + 1
    /\ IF LoopContinues(iteration + 1)
       THEN pc' = "AwaitingModel" /\ UNCHANGED outcome
       ELSE /\ pc' = "Failed"
            /\ outcome' = Outcome("thrown", "Agent exceeded maximum iterations",
                                  Summary("none", 0), << >>)
    /\ toolCalls' = << >>
    /\ idx' = 0
    /\ toolResponses' = << >>
    /\ UNCHANGED <<acc, tasks, fs, now, deviations, clones, nextId, conversations,
                   serverVars, clientVars, walkVars, otherVars,
                   settled, warnings>>

----------------------------------------------------------------------------
(* The final answer: parseAgentResponse, generatePatches, generateFilePatch *)

Task(entry, state, patch) == [entry |-> entry, pc |-> state, patch |-> patch]

NoPatch == Patch("none", "none")

\* generateFilePatch up to its first await: reading file.filename of a null
\* entry throws, and so does the catch that reports it, so the promise rejects
StartTask(entry) ==
    IF entry.kind = "null" THEN Task(entry, "rejected", NoPatch)
                           ELSE Task(entry, "running", NoPatch)

PathOfEntry(entry) == IF entry.kind = "absent" THEN "absent" ELSE "present"

\* let originalContent = '', replaced by what getFileContent returned; the
\* inner catch leaves it empty on any failure of the read
OriginalContent(res) == IF res = "content" THEN "repo_content" ELSE ""

\* a diff engine that emits nothing for equal texts
createPatchBare(original, entry) ==
    CASE original = "repo_content" /\ entry.kind = "same" -> ""
      [] original = "repo_content" -> "diff_repo"
      [] OTHER -> "diff_empty"

\* createPatch of the diff package: the Index, ---, +++ header lines naming the
\* file, always, followed by the hunks; equal texts give no hunk
\* ("header_only"), an empty original gives one hunk adding every line
\* ("diff_empty")
createPatch(original, entry) ==
    CASE original = "repo_content" /\ entry.kind = "same" -> "header_only"
      [] original = "repo_content" -> "diff_repo"
      [] OTHER -> "diff_empty"

\* the patch entry generateFilePatch resolves with: the outer catch embeds the
\* error of createPatch, followed by the proposed content
FilePatch(entry, res) ==
    IF entry.kind = "bad" THEN Patch(entry.filename, "error_then_new_content")
    ELSE Patch(entry.filename, createPatch(OriginalContent(res), entry))

HasNull(files) == \E i \in 1..Len(files) : files[i].kind = "null"

Count(files) == Cardinality({i \in 1..Len(files) : files[i].kind # "null"})

\* runAgentIteration returned a message without tool calls: it is pushed, parsed
\* and validated; generatePatches starts every generateFilePatch in one
\* synchronous burst (the clock may tick after the first tickAt of them); a
\* rejected promise makes Promise.all reject at once, into the catch
ModelAnswers(content, tickAt) ==
    LET parsed == parseAgentResponse(content)
        files  == parsed.files
        n      == Len(files)
        stamp(i) == IF i <= tickAt THEN now ELSE now + 1
    IN
    /\ pc = "AwaitingModel"
    /\ messages' = Append(messages, Msg("assistant", << >>, NoId, content))
    /\ IF parsed.threw \/ n = 0
       THEN /\ tickAt = 0
            /\ Spend(IF content = PlainAnswer THEN 0 ELSE 1)
            /\ outcome' = IF parsed.threw THEN DegradedResult(content)
                          ELSE Outcome("returned", "none", Summary("parsed", 0), << >>)
            /\ pc' = "Done"
            /\ UNCHANGED <<tasks, acc, clones, now, settled>>
       ELSE /\ tickAt \in 1..n
            /\ Spend(1)
            /\ now' = IF tickAt < n THEN now + 1 ELSE now
            /\ tasks' = [i \in 1..n |-> StartTask(files[i])]
            /\ settled' = << >>
            /\ acc' = [s \in Slots |->
                         IF s \in 1..n /\ files[s].kind # "null"
                         THEN [StartAccess("get", PathOfEntry(files[s])) EXCEPT !.dir = stamp(s)]
                         ELSE acc[s]]
            /\ clones' = clones + Count(files)
            /\ IF HasNull(files)
               THEN pc' = "Done" /\ outcome' = DegradedResult(content)
               ELSE pc' = "GeneratingPatches" /\ UNCHANGED outcome
    /\ UNCHANGED <<iteration, toolCalls, idx, toolResponses, fs, nextId, conversations,
                   serverVars, clientVars, walkVars, otherVars,
                   warnings>>

\* the getFileContent a generateFilePatch awaited has settled
PatchTaskSettles(i) ==
    /\ i \in 1..Len(tasks)
    /\ tasks[i].pc = "running"
    /\ acc[i].pc = "done"
    /\ tasks' = [tasks EXCEPT ![i] =
                   Task(tasks[i].entry, "fulfilled", FilePatch(tasks[i].entry, acc[i].res))]
    /\ acc' = [acc EXCEPT ![i] = IdleAccess]
    /\ settled' = Append(settled, i)
    /\ UNCHANGED <<pc, iteration, messages, toolCalls, idx, toolResponses, fs, now,
                   outcome, deviations, clones, nextId, conversations,
                   serverVars, clientVars, walkVars, otherVars, warnings>>

\* a collector that takes the patches as the promises settle
PromiseAllAsSettled(ts, order) == [k \in 1..Len(order) |-> ts[order[k]].patch]

\* Promise.all(files.map(...)): the values of the promises in the order of
\* the array, whatever the order they settled in
PromiseAll(ts, order) == [i \in 1..Len(ts) |-> ts[i].patch]

\* Promise.all resolved: result.files becomes the patches
PatchesSettle ==
    /\ pc = "GeneratingPatches"
    /\ \A i \in 1..Len(tasks) : tasks[i].pc = "fulfilled"
    /\ pc' = "Done"
    /\ outcome' = Outcome("returned", "none", Summary("parsed", 0),
                          PromiseAll(tasks, settled))
    /\ UNCHANGED <<iteration, messages, toolCalls, idx, toolResponses, acc, tasks,
                   fs, now, deviations, clones, nextId, conversations,
                   serverVars, clientVars, walkVars, otherVars, settled,
                   warnings>>

----------------------------------------------------------------------------

Next ==
    \/ \E batch \in ToolCallBatches : ModelRequestsTools(batch)
    \/ ProcessToolCall
    \/ ToolCallSettles
    \/ FinishRound
    \/ \E content \in FinalContents, tickAt \in 0..2 : ModelAnswers(content, tickAt)
    \/ \E i \in FileSlots : PatchTaskSettles(i)
    \/ PatchesSettle
    \/ \E s \in Slots : CloneSucceeds(s)
    \/ \E s \in Slots, leftover \in BOOLEAN : CloneFails(s, leftover)
    \/ \E s \in Slots, ok \in BOOLEAN : ListSettles(s, ok)
    \/ \E s \in Slots, ok \in BOOLEAN : ReadSettles(s, ok)
    \/ \E s \in Slots, ok \in BOOLEAN : RmSettles(s, ok)
    \/ OtherInvocationCleans

Spec == Init /\ [][Next]_vars

\* every awaited call returns: each enabled step is eventually taken
FairSpec == Spec /\ WF_vars(Next)

Terminated == pc \in {"Done", "Failed"}
----------------------------------------------------------------------------
(* Observations on the state *)

Range(f) == {f[i] : i \in DOMAIN f}

Last(q) == q[Len(q)]

IsToolRequest(m) == m.role = "assistant" /\ Len(m.tool_calls) > 0

\* chat-completion requests issued so far: each was answered by one assistant message
Requests == Cardinality({i \in 1..Len(messages) : messages[i].role = "assistant"})

\* responses so far that carried tool calls
ToolRounds == Cardinality({i \in 1..Len(messages) : IsToolRequest(messages[i])})

CallIds(m) == [k \in 1..Len(m.tool_calls) |-> m.tool_calls[k].id]

\* the tool_call_id of the tool messages after position i, in log order
ToolIdsAfter(log, i) ==
    LET later == SelectSeq(SubSeq(log, i + 1, Len(log)), LAMBDA m : m.role = "tool")
    IN  [k \in 1..Len(later) |-> later[k].tool_call_id]

\* the ids of the calls of message i are answered after it, once each, in call order
AnsweredInOrder(log, i) ==
    SelectSeq(ToolIdsAfter(log, i), LAMBDA id : id \in Range(CallIds(log[i]))) = CallIds(log[i])

Exceeded == pc = "Failed" /\ outcome.error = "Agent exceeded maximum iterations"

\* the content of the final (no tool call) message, once there is one
FinalContent == Last(messages).content

KnownTools == {"list_repo_files", "get_file_content"}

\* an access that has gone through cloneRepository and has not returned yet
InProgress(a) == a.pc \in {"cloning", "listing", "reading", "removing"}

----------------------------------------------------------------------------
(* C1 *)

\* C1: runAgentLoop terminates on every sequence of model responses and tool
\* outcomes when every awaited call settles: it never issues more than
\* maxIterations requests, and unless an awaited call threw (processToolCalls
\* rejecting) it ends by returning a result or by throwing 'Agent exceeded
\* maximum iterations' after exactly maxIterations rounds.
C1_Terminates ==
    /\ <>Terminated
    /\ [](Requests <= MaxIterations /\ iteration <= MaxIterations)
    /\ [](Terminated /\ outcome.error # "SyntaxError" =>
            \/ pc = "Done" /\ outcome.kind = "returned"
            \/ Exceeded /\ iteration = MaxIterations /\ Requests = MaxIterations)

C1_Witness == Exceeded /\ Requests = MaxIterations

\* C2: whenever the log is sent in a request or the loop has returned, and for
\* every assistant message that is not the last message at any time, each
\* tool-call id of the assistant message is the tool_call_id of exactly one
\* later tool message and these come in the order of the calls; and every
\* tool message answers a call of an earlier assistant message.
C2_ToolCallsAnsweredInOrder ==
    /\ \A i \in 1..Len(messages) :
          ( /\ IsToolRequest(messages[i])
            /\ i < Len(messages) \/ pc \in {"AwaitingModel", "GeneratingPatches", "Done"} )
          => AnsweredInOrder(messages, i)
    /\ \A j \in 1..Len(messages) :
          messages[j].role = "tool" =>
             \E i \in 1..(j - 1) :
                /\ IsToolRequest(messages[i])
                /\ messages[j].tool_call_id \in Range(CallIds(messages[i]))

C2_Witness ==
    /\ pc = "AwaitingModel"
    /\ \E i \in 1..Len(messages) :
          /\ Len(messages[i].tool_calls) = 2
          /\ Len(messages) >= i + 2
          /\ messages[i + 1].role = "tool"
          /\ messages[i + 1].tool_call_id = messages[i].tool_calls[1].id
          /\ messages[i + 2].role = "tool"
          /\ messages[i + 2].tool_call_id = messages[i].tool_calls[2].id

\* C3 (as claimed): an invocation that has ended failed with 'Agent exceeded
\* maximum iterations' exactly when all MaxIterations responses carried tool
\* calls, and never issued more than MaxIterations requests.
C3_ExceededExactlyWhenAllRoundsCallTools ==
    /\ Requests <= MaxIterations
    /\ Terminated => (Exceeded <=> ToolRounds = MaxIterations)

\* C4: a tool call naming an unrecognized tool, or whose repository access
\* failed, is answered by a tool message with that call's id whose content is
\* an {error: message} object; the invocation never fails with the tool's
\* failure, and the loop of processToolCalls goes on to the next call.
C4_ToolFailuresAreData ==
    /\ [](pc = "Failed" => outcome.error \in {"SyntaxError", "Agent exceeded maximum iterations"})
    /\ [](\A i \in 1..Len(messages) : \A k \in 1..Len(messages[i].tool_calls) :
             \A j \in 1..Len(messages) :
                ( /\ messages[i].tool_calls[k].name \notin KnownTools
                  /\ messages[j].role = "tool"
                  /\ messages[j].tool_call_id = messages[i].tool_calls[k].id )
                => ( messages[j].content.tag = "error"
                     /\ messages[j].content.text = "Unknown tool" ))
    /\ [][ ( /\ pc = "ExecutingTools"
             /\ idx \in 1..Len(toolCalls)
             /\ acc[0].pc = "done"
             /\ ~Succeeded(acc[0].res)
             /\ acc'[0].pc = "idle" )
           => ( /\ pc' = "ExecutingTools"
                /\ idx' = idx + 1
                /\ Len(toolResponses') = Len(toolResponses) + 1
                /\ Last(toolResponses').role = "tool"
                /\ Last(toolResponses').tool_call_id = toolCalls[idx].id
                /\ Last(toolResponses').content.tag = "error" ) ]_vars

C4_Witness ==
    /\ pc = "AwaitingModel"
    /\ iteration >= 1
    /\ \E j \in 1..Len(messages) :
          /\ messages[j].role = "tool"
          /\ messages[j].content.tag = "error"
          /\ messages[j].content.text \in {"Unknown tool", "Failed to list files: clone failed"}

\* C5 (as claimed): a tool call whose arguments are not valid JSON does not fail
\* the invocation, and once its round is over a tool message answers its id.
C5_BadArgumentsAbsorbed ==
    /\ ~(pc = "Failed" /\ outcome.error = "SyntaxError")
    /\ pc # "ExecutingTools" =>
          \A i \in 1..Len(messages) : \A k \in 1..Len(messages[i].tool_calls) :
             messages[i].tool_calls[k].arguments = "invalid" =>
                \E j \in (i + 1)..Len(messages) :
                   /\ messages[j].role = "tool"
                   /\ messages[j].tool_call_id = messages[i].tool_calls[k].id

\* the final message is one the validator cannot use: neither its {...} span
\* nor the text itself parses, or it parses to null or to an object lacking
\* summary or a files array
HasFinalMessage == Last(messages).role = "assistant" /\ ~IsToolRequest(Last(messages))

Unusable(content) ==
    \/ content.tag = "null"
    \/ content.text \in {"not_json", "no_summary", "no_files", "json_null", "empty"}

\* C6 (as claimed): on an unusable final message runAgentLoop returns a result
\* with no files whose summary is the first at most 200 characters of the raw
\* content.
C6_DegradedSummaryIsPrefix ==
    (HasFinalMessage /\ Unusable(FinalContent)) =>
        /\ pc = "Done"
        /\ outcome.kind = "returned"
        /\ outcome.files = << >>
        /\ outcome.summary = Summary("content", Min(FinalContent.len, SummaryLimit))

\* C6 (amended): on an unusable final message runAgentLoop does not throw; it
\* returns a result with no files whose summary is the first at most 200
\* characters of the content when the content is a string, and the fixed text
\* 'Code generation completed' when it is not (a null content).
C6_DegradedResult ==
    (HasFinalMessage /\ Unusable(FinalContent)) =>
        /\ pc = "Done"
        /\ outcome.kind = "returned"
        /\ outcome.files = << >>
        /\ outcome.summary =
             IF FinalContent.tag = "string"
             THEN Summary("content", Min(FinalContent.len, SummaryLimit))
             ELSE Summary("Code generation completed", 0)

C6_Witness ==
    /\ pc = "Done"
    /\ HasFinalMessage
    /\ FinalContent.text = "not_json"
    /\ FinalContent.len > SummaryLimit
    /\ outcome.summary = Summary("content", SummaryLimit)
    /\ outcome.files = << >>

\* C7 (as claimed): once listRepoFiles or getFileContent has returned or
\* thrown, the temporary directory named for that call does not exist.
C7_CheckoutRemovedOnReturn ==
    \A s \in Slots : acc[s].pc = "done" => acc[s].dir \notin fs

\* C8 (as claimed): two repository accesses in progress at the same time never
\* use the same checkout directory.
C8_NoSharedCheckout ==
    \A s, t \in Slots :
        (s # t /\ InProgress(acc[s]) /\ InProgress(acc[t])) => acc[s].dir # acc[t].dir

\* C9 (as claimed): within one invocation the repository is cloned at most once.
C9_ClonedAtMostOnce == clones <= 1

\* C10 (as claimed): for a validated final answer with files f1..fn the result
\* has exactly one patch entry per file, in order; the entry of a file whose
\* patch computation failed carries the embedded error followed by the
\* proposed content, the others carry a diff.
C10_OnePatchPerFile ==
    (pc = "Done" /\ HasFinalMessage /\ FinalContent.text \in {"result", "fenced_result"}) =>
        /\ outcome.kind = "returned"
        /\ Len(outcome.files) = Len(FinalContent.files)
        /\ \A i \in 1..Len(FinalContent.files) :
              /\ outcome.files[i].filename = FinalContent.files[i].filename
              /\ outcome.files[i].patch =
                   IF FinalContent.files[i].kind \in {"bad", "null"}
                   THEN "error_then_new_content"
                   ELSE outcome.files[i].patch
              /\ outcome.files[i].patch \in
                   {"error_then_new_content", "diff_repo", "diff_empty", "header_only"}

----------------------------------------------------------------------------
(* C11 .. C20 *)

\* the final answer passed parseAgentResponse and generatePatches returned
PatchesReturned ==
    pc = "Done" /\ HasFinalMessage /\ outcome.kind = "returned" /\ outcome.summary.src = "parsed"

\* C11: whenever generatePatches returns, its list has the length of the files
\* of the final answer and its i-th entry carries the filename of the i-th
\* file, in whatever order the per-file computations settled.
C11_PatchesInInputOrder ==
    PatchesReturned =>
        /\ Len(outcome.files) = Len(FinalContent.files)
        /\ \A i \in 1..Len(FinalContent.files) :
              outcome.files[i].filename = FinalContent.files[i].filename

C11_Witness ==
    /\ PatchesReturned
    /\ settled = << 2, 1 >>
    /\ Len(outcome.files) = 2
    /\ outcome.files[1].filename = "a"
    /\ outcome.files[2].filename = "b"

\* what JSON.parse made of the final message
FinalValue == JSONParseContent(ContentStr(FinalContent))

\* C12 (as claimed): a final answer that parses to an object is accepted exactly
\* when its summary is present and a string, the empty string included, and
\* its files member is an array; any other shape gives the degraded result.
C12_AcceptsExactlyStringSummaryAndArray ==
    ( /\ pc = "Done"
      /\ HasFinalMessage
      /\ ~FinalValue.threw
      /\ ~FinalValue.isNull
      /\ ~HasNull(FinalContent.files) )
    => IF FinalValue.summary \in {"text", "empty"} /\ FinalValue.files
       THEN outcome.summary.src = "parsed"
       ELSE outcome = DegradedResult(FinalContent)

\* the tool messages answering call k of message i
AnswersTo(i, k) ==
    { j \in 1..Len(messages) :
        /\ messages[j].role = "tool"
        /\ messages[j].tool_call_id = messages[i].tool_calls[k].id }

\* C13 (as claimed): a get_file_content call for a path list_repo_files would
\* not report is never answered with file content: the answer is an error,
\* and it is 'File not found' unless the clone itself failed.
C13_UnlistedPathNotRead ==
    \A i \in 1..Len(messages) : \A k \in 1..Len(messages[i].tool_calls) :
        LET call == messages[i].tool_calls[k] IN
        ( /\ call.name = "get_file_content"
          /\ call.arguments \in PathKinds
          /\ ~getAllFilesReports(call.arguments) )
        => \A j \in AnswersTo(i, k) :
              /\ messages[j].content.tag = "error"
              /\ messages[j].content.text \in
                    { AccessError("get", "FileNotFound"), AccessError("get", "CloneFailed") }

\* C14: the log is [system, user] of the transcript when the first request is
\* sent, these two stay its first messages, and every step leaves the log as
\* it was or extends it at the end: the log of each request is a prefix of the
\* log of the next.
C14_LogAppendOnly ==
    /\ messages = << SystemMessage, UserMessage(conversations) >>
    /\ [](SubSeq(messages, 1, 2) = << SystemMessage, UserMessage(conversations) >>)
    /\ [][ /\ Len(messages') >= Len(messages)
           /\ SubSeq(messages', 1, Len(messages)) = messages ]_vars

C14_Witness ==
    /\ conversations = << >>
    /\ pc = "AwaitingModel"
    /\ Requests = 3
    /\ Len(messages) = 8
    /\ messages[2].content.lines = << >>

\* access s ends in this step, throwing 'File not found'
EndsNotFound(s) ==
    acc[s].pc # "done" /\ acc'[s].pc = "done" /\ acc'[s].res = "FileNotFound"

\* C15 (as claimed): when getFileContent throws 'File not found' the checkout of
\* that call no longer exists.
C15_NotFoundLeavesNoCheckout ==
    [][ \A s \in Slots : EndsNotFound(s) => acc[s].tempDir \notin fs' ]_vars

\* C15 (amended): getFileContent on a path that names nothing after a clone
\* that succeeded throws 'File not found', and only after cleanupTempDir ran on
\* its checkout: the checkout is gone unless the removal failed, which was
\* logged.
C15_NotFoundAfterCleanup ==
    [][ \A s \in Slots :
          /\ ( /\ acc[s].pc = "cloning"
               /\ acc[s].path \in PathKinds
               /\ ~JoinedPathExists(acc[s].path)
               /\ acc'[s].pc # "cloning"
               /\ acc'[s].res # "CloneFailed" )
             => ( acc'[s].res = "FileNotFound" /\ acc'[s].pc = "removing" )
          /\ EndsNotFound(s)
             => ( /\ acc[s].pc = "removing"
                  /\ acc[s].tempDir \notin fs' \/ warnings' = warnings + 1 ) ]_vars

C15_Witness ==
    /\ acc[0].pc = "done"
    /\ acc[0].path = "absent"
    /\ acc[0].res = "FileNotFound"
    /\ acc[0].tempDir # NoDir
    /\ acc[0].tempDir \notin fs

\* C16: cleanupTempDir never changes what the enclosing operation returns or
\* throws: a removal that fails is logged and leaves the result as it was, and
\* on no directory or a directory already removed it removes and logs nothing.
C16_CleanupNeverMasks ==
    [][ \A s \in Slots :
          /\ (acc[s].pc = "removing" /\ acc'[s].pc = "done")
             => ( /\ acc'[s].res = acc[s].res
                  /\ \/ fs' = fs \ {acc[s].tempDir} /\ warnings' = warnings
                     \/ fs' = fs /\ warnings' = warnings + 1 )
          /\ (acc[s].pc \in {"cloning", "listing", "reading"} /\ acc'[s].pc = "done")
             => ( /\ acc'[s].tempDir = NoDir \/ acc'[s].tempDir \notin fs'
                  /\ acc'[s].res # "none"
                  /\ warnings' = warnings
                  /\ fs' = fs \/ acc[s].pc = "cloning" ) ]_vars

C16_Witness ==
    /\ warnings = 1
    /\ acc[0].pc = "done"
    /\ acc[0].res = "files"
    /\ acc[0].tempDir \in fs

\* C17 (as claimed): a final content that holds a valid result object followed
\* by further text with braces is recovered as that result.
C17_FirstBalancedSpanRecovered ==
    (pc = "Done" /\ HasFinalMessage /\ FinalContent.text = "result_then_braces") =>
        /\ outcome.kind = "returned"
        /\ outcome.summary.src = "parsed"

C20_IndependentOfOtherInvocations ==
    /\ SubSeq(messages, 1, 2) = << SystemMessage, UserMessage(conversations) >>
    /\ (pc = "ExecutingTools" /\ acc[0].pc \in {"listing", "reading"}) =>
          acc[0].tempDir \in fs

----------------------------------------------------------------------------
(* The server side of one WebSocket connection: ConnectionState, the       *)
(* recognition handlers and handleCodeGeneration of                        *)
(* backend/src/websocket, and speech/speechHandler.js                      *)

\* control messages (start, stop, generate_code) received on one connection
MaxMessages == 2

\* recognition results the streams of one connection deliver
MaxResults == 2

Info(repoId, userName, branch) ==
    [repoId |-> repoId, userName |-> userName, branch |-> branch]

\* the fields a start message may carry
StartMessages ==
    { Info("r1", "ann", "dev"),
      Info("r1", "bob", Undefined),
      Info(Undefined, "ann", "dev") }

\* the fields a generate_code message may carry
GenerateMessages ==
    { Info("r1", "ann", "dev"),
      Info("r1", Undefined, Undefined),
      Info(Undefined, Undefined, Undefined) }

\* a || b
Or(a, b) == IF a # Undefined THEN a ELSE b

\* connectionInfo?.field
FieldOf(info, field) == IF info = NullInfo THEN Undefined ELSE info[field]

Stream(info) == [info |-> info, ended |-> FALSE]

Reply(type, summary, files, audio) ==
    [type |-> type, summary |-> summary, files |-> files, audio |-> audio]

Handler(repoId, branch) ==
    [pc |-> "query", repoId |-> repoId, branch |-> branch, replies |-> << >>,
     lost |-> FALSE, found |-> "none", agentCalls |-> 0, requests |-> 0,
     clonesStarted |-> 0, summary |-> "none", files |-> "none",
     speech |-> "none"]

\* ConnectionState.stopRecognition applied to the streams of the connection
stopRecognition(all, current) ==
    IF current # 0 THEN [all EXCEPT ![current].ended = TRUE] ELSE all

\* putTranscription: the INSERT into user_transcripts, all columns NOT NULL
InsertAccepted(info, inserted) ==
    /\ inserted
    /\ info.repoId # Undefined
    /\ info.userName # Undefined
    /\ info.branch # Undefined

\* saveTranscription: "skipped", "written" or "failed" (logged only)
saveTranscription(info, text, inserted) ==
    IF info = NullInfo \/ text = "blank" THEN "skipped"
    ELSE IF InsertAccepted(info, inserted) THEN "written" ELSE "failed"

\* handleRecognitionData: what becomes of one result of a stream
handleRecognitionDataSavingAll(info, isFinal, text, inserted) ==
    saveTranscription(info, text, inserted)

handleRecognitionData(info, isFinal, text, inserted) ==
    IF isFinal THEN saveTranscription(info, text, inserted) ELSE "skipped"

\* getOpenAIClient: [threw, client] from the singleton and the environment
getOpenAIClientUnchecked(clientExists, key) ==
    [threw |-> FALSE, client |-> TRUE]

getOpenAIClient(clientExists, key) ==
    IF clientExists THEN [threw |-> FALSE, client |-> TRUE]
    ELSE IF ~key THEN [threw |-> TRUE, client |-> FALSE]
    ELSE [threw |-> FALSE, client |-> TRUE]

\* ws.send of a reply of handler h: a closed socket delivers nothing
Sent(h, reply) ==
    IF sock = "open" THEN [h EXCEPT !.replies = Append(@, reply)]
    ELSE [h EXCEPT !.lost = TRUE]

\* a connection was accepted: setupWebSocket made its ConnectionState
Connected ==
    /\ sock = "open"
    /\ connectionInfo = NullInfo
    /\ recognizeStream = 0
    /\ streams = << >>
    /\ heard = << >>
    /\ rows = << >>
    /\ handlers = << >>
    /\ openaiClient = FALSE
    /\ received = 0

Receive ==
    /\ sock = "open"
    /\ received < MaxMessages
    /\ received' = received + 1

\* handleStartRecognition
StartMessage(m, created) ==
    /\ Receive
    /\ connectionInfo' = Info(m.repoId, m.userName, Or(m.branch, "main"))
    /\ IF env.speechClient /\ created
       THEN /\ streams' = Append(streams, Stream(connectionInfo'))
            /\ recognizeStream' = Len(streams')
       ELSE UNCHANGED <<streams, recognizeStream>>
    /\ UNCHANGED <<heard, rows, handlers, openaiClient, env, sock>>
    /\ UNCHANGED <<agentVars, clientVars, walkVars, otherVars>>

\* handleStopRecognition
StopMessage ==
    /\ Receive
    /\ streams' = stopRecognition(streams, recognizeStream)
    /\ recognizeStream' = 0
    /\ UNCHANGED <<connectionInfo, heard, rows, handlers, openaiClient, env, sock>>
    /\ UNCHANGED <<agentVars, clientVars, walkVars, otherVars>>

\* handleConnectionError
SocketError ==
    /\ sock = "open"
    /\ recognizeStream # 0
    /\ streams' = stopRecognition(streams, recognizeStream)
    /\ recognizeStream' = 0
    /\ UNCHANGED <<connectionInfo, heard, rows, handlers, openaiClient, env, sock,
                   received>>
    /\ UNCHANGED <<agentVars, clientVars, walkVars, otherVars>>

\* handleConnectionClose: ConnectionState.cleanup
SocketClose ==
    /\ sock = "open"
    /\ sock' = "closed"
    /\ streams' = stopRecognition(streams, recognizeStream)
    /\ recognizeStream' = 0
    /\ connectionInfo' = NullInfo
    /\ UNCHANGED <<heard, rows, handlers, openaiClient, env, received>>
    /\ UNCHANGED <<agentVars, clientVars, walkVars, otherVars>>

\* a 'data' event of stream s: handleRecognitionData with the connection
\* info createRecognitionStream was called with
RecognitionData(s, isFinal, text, inserted) ==
    /\ s \in 1..Len(streams)
    /\ Len(heard) < MaxResults
    /\ LET info == streams[s].info
           saved == handleRecognitionData(info, isFinal, text, inserted)
       IN  /\ heard' = Append(heard, [stream |-> s, isFinal |-> isFinal,
                                      text |-> text, saved |-> saved])
           /\ rows' = IF saved = "written"
                      THEN Append(rows, [repoId |-> info.repoId,
                                         userName |-> info.userName,
                                         branch |-> info.branch,
                                         transcription |-> text,
                                         result |-> Len(heard')])
                      ELSE rows
    /\ UNCHANGED <<sock, connectionInfo, recognizeStream, streams, handlers,
                   openaiClient, env, received>>
    /\ UNCHANGED <<agentVars, clientVars, walkVars, otherVars>>

\* handleCodeGeneration with a field missing: one error, and return
MissingInfoNoReturn(h) ==
    Sent(h, Reply("error", "missing_info", "none", FALSE))

MissingInfo(h) ==
    [Sent(h, Reply("error", "missing_info", "none", FALSE)) EXCEPT !.pc = "done"]

\* handleCodeGeneration up to its first await
GenerateCodeMessage(m) ==
    /\ Receive
    /\ LET repoId == Or(m.repoId, FieldOf(connectionInfo, "repoId"))
           userName == Or(m.userName, FieldOf(connectionInfo, "userName"))
           branch == Or(m.branch, FieldOf(connectionInfo, "branch"))
           h == Handler(repoId, branch)
       IN  handlers' = Append(handlers,
               IF Undefined \in {repoId, userName, branch}
               THEN MissingInfo(h) ELSE h)
    /\ UNCHANGED <<sock, connectionInfo, recognizeStream, streams, heard, rows,
                   openaiClient, env>>
    /\ UNCHANGED <<agentVars, clientVars, walkVars, otherVars>>

\* handleCodeGeneration after getRecentTranscriptionsForBranch settled, up to
\* the call of generateCode: pc "call" when it goes on to call it
AfterQueryNoReturn(h, found) ==
    CASE found = "throws" ->
           [Sent(h, Reply("code_generation_result", "process_error", "empty",
                          FALSE)) EXCEPT !.pc = "done", !.found = found]
      [] found = "empty" ->
           [Sent(h, Reply("code_generation_result", "no_conversations", "empty",
                          FALSE)) EXCEPT !.pc = "call", !.found = found]
      [] OTHER -> [h EXCEPT !.pc = "call", !.found = found]

AfterQuery(h, found) ==
    CASE found = "throws" ->
           [Sent(h, Reply("code_generation_result", "process_error", "empty",
                          FALSE)) EXCEPT !.pc = "done", !.found = found]
      [] found = "empty" ->
           [Sent(h, Reply("code_generation_result", "no_conversations", "empty",
                          FALSE)) EXCEPT !.pc = "done", !.found = found]
      [] OTHER -> [h EXCEPT !.pc = "call", !.found = found]

\* generateCode entering generateCodeFromConversation: getOpenAIClient comes
\* first, and generateCode turns what it throws into an error summary
Called(h, got) ==
    IF got.threw
    THEN [h EXCEPT !.agentCalls = @ + 1, !.pc = "speech",
                   !.summary = "agent_error", !.files = "empty"]
    ELSE [h EXCEPT !.agentCalls = @ + 1, !.pc = "agent"]

\* getRecentTranscriptionsForBranch settles
QuerySettles(i, found) ==
    /\ i \in 1..Len(handlers)
    /\ handlers[i].pc = "query"
    /\ LET h == AfterQuery(handlers[i], found)
           got == getOpenAIClient(openaiClient, env.OPENAI_API_KEY)
       IN  IF h.pc = "call"
           THEN /\ openaiClient' = got.client
                /\ handlers' = [handlers EXCEPT ![i] = Called(h, got)]
           ELSE /\ handlers' = [handlers EXCEPT ![i] = h]
                /\ UNCHANGED openaiClient
    /\ UNCHANGED <<sock, connectionInfo, recognizeStream, streams, heard, rows,
                   env, received>>
    /\ UNCHANGED <<agentVars, clientVars, walkVars, otherVars>>

\* what generateCodeFromConversation may come to after it has a client
AgentOutcomes == {"result", "empty_summary", "throws"}

\* generateCodeFromConversation settles: runAgentLoop made at least one
\* chat-completion request, and its tool calls and patches cloned or not
AgentSettles(i, result, cloned) ==
    /\ i \in 1..Len(handlers)
    /\ handlers[i].pc = "agent"
    /\ handlers' = [handlers EXCEPT ![i] =
          [@ EXCEPT !.pc = "speech",
                    !.requests = IF cloned THEN 2 ELSE 1,
                    !.clonesStarted = IF cloned THEN 1 ELSE 0,
                    !.summary = CASE result = "result" -> "agent_summary"
                                  [] result = "empty_summary" -> "empty"
                                  [] OTHER -> "agent_error",
                    !.files = IF result = "throws" THEN "empty" ELSE "patches"]]
    /\ UNCHANGED <<sock, connectionInfo, recognizeStream, streams, heard, rows,
                   openaiClient, env, received>>
    /\ UNCHANGED <<agentVars, clientVars, walkVars, otherVars>>

\* generateAudioFromSummary: "skipped" without a client or a summary,
\* otherwise what synthesizeSpeech came to
generateAudioFromSummary(summary, spoken) ==
    IF ~env.textToSpeechClient \/ summary = "empty" THEN "skipped"
    ELSE IF spoken THEN "audio" ELSE "failed"

\* generateAudioFromSummary settles and handleCodeGeneration sends the result
SpeechSettles(i, spoken) ==
    /\ i \in 1..Len(handlers)
    /\ handlers[i].pc = "speech"
    /\ LET h == handlers[i]
           speech == generateAudioFromSummary(h.summary, spoken)
       IN  handlers' = [handlers EXCEPT ![i] =
              [Sent(h, Reply("code_generation_result", h.summary, h.files,
                             speech = "audio"))
                 EXCEPT !.pc = "done", !.speech = speech]]
    /\ UNCHANGED <<sock, connectionInfo, recognizeStream, streams, heard, rows,
                   openaiClient, env, received>>
    /\ UNCHANGED <<agentVars, clientVars, walkVars, otherVars>>

\* the agent at rest while the connection is looked at
AgentIdle ==
    /\ pc = "Idle"
    /\ iteration = 0
    /\ conversations = << >>
    /\ messages = << >>
    /\ toolCalls = << >>
    /\ idx = 0
    /\ toolResponses = << >>
    /\ acc = [s \in Slots |-> IdleAccess]
    /\ tasks = << >>
    /\ fs = {}
    /\ now = 0
    /\ outcome = NoOutcome
    /\ deviations = 0
    /\ clones = 0
    /\ nextId = 1
    /\ settled = << >>
    /\ warnings = 0

\* the awaited calls of handleCodeGeneration
HandlerStep ==
    \/ \E i \in 1..MaxMessages, found \in {"rows", "empty", "throws"} :
          QuerySettles(i, found)
    \/ \E i \in 1..MaxMessages, result \in AgentOutcomes, cloned \in BOOLEAN :
          AgentSettles(i, result, cloned)
    \/ \E i \in 1..MaxMessages, spoken \in BOOLEAN : SpeechSettles(i, spoken)

\* the recognition side of the connection
RecognitionNext ==
    \/ \E m \in StartMessages, created \in BOOLEAN : StartMessage(m, created)
    \/ StopMessage
    \/ SocketError
    \/ SocketClose
    \/ \E s \in 1..MaxMessages, isFinal \in BOOLEAN, text \in {"words", "blank"},
          inserted \in BOOLEAN : RecognitionData(s, isFinal, text, inserted)

\* the speech client may be there or not; code generation is not looked at
RecognitionInit ==
    /\ Connected /\ AgentIdle /\ ClientIdle /\ WalkIdle /\ OthersIdle
    /\ env \in [OPENAI_API_KEY : {FALSE}, speechClient : BOOLEAN,
                textToSpeechClient : {FALSE}]

RecognitionSpec ==
    /\ RecognitionInit
    /\ [][RecognitionNext]_vars

\* the code-generation side of the connection
GenerationNext ==
    \/ \E m \in StartMessages, created \in BOOLEAN : StartMessage(m, created)
    \/ SocketClose
    \/ \E m \in GenerateMessages : GenerateCodeMessage(m)
    \/ \E i \in 1..MaxMessages, found \in {"rows", "empty", "throws"} :
          QuerySettles(i, found)
    \/ \E i \in 1..MaxMessages, result \in AgentOutcomes, cloned \in BOOLEAN :
          AgentSettles(i, result, cloned)
    \/ \E i \in 1..MaxMessages, spoken \in BOOLEAN : SpeechSettles(i, spoken)

\* the credential and the text-to-speech client may be there or not; without
\* a speech client a start message only sets the connection info
GenerationInit ==
    /\ Connected /\ AgentIdle /\ ClientIdle /\ WalkIdle /\ OthersIdle
    /\ env \in [OPENAI_API_KEY : BOOLEAN, speechClient : {FALSE},
                textToSpeechClient : BOOLEAN]

GenerationSpec ==
    /\ GenerationInit
    /\ [][GenerationNext]_vars

\* every awaited call of a handler settles
GenerationFairSpec == GenerationSpec /\ WF_vars(HandlerStep)

----------------------------------------------------------------------------
(* getAllFiles of codeAgent.js on the directory tree of a checkout *)

\* how deep the directories of a checkout nest below its root
MaxDepth == 2

\* names are sequences of characters, paths sequences of names
DotGit == << ".", "g" >>
DotEnv == << ".", "e" >>
NameF == << "f" >>
NameD == << "d" >>

\* a Dirent with, for a directory, what readdir returns for it
Entry(name, kind, entries) == [name |-> name, kind |-> kind, entries |-> entries]

\* the directories readdir may report, by nesting depth: an optional regular
\* file or symbolic link f, an optional regular file .e, an optional
\* directory d and an optional hidden directory .g holding files only
RECURSIVE Dirs(_)
Dirs(depth) ==
    LET plain == { << >>, << Entry(NameF, "file", << >>) >>,
                   << Entry(NameF, "link", << >>) >> }
        hidden == { << >>, << Entry(DotEnv, "file", << >>) >> }
        below == IF depth = 0 THEN { << >> }
                 ELSE { << >> } \cup
                      { << Entry(NameD, "dir", sub) >> : sub \in Dirs(depth - 1) }
        git == { << >>,
                 << Entry(DotGit, "dir", << Entry(NameF, "file", << >>) >>) >> }
    IN  { g \o h \o d \o p : g \in git, h \in hidden, d \in below, p \in plain }

\* entry.name.startsWith(c)
StartsWithNever(name, c) == FALSE

StartsWith(name, c) == Len(name) > 0 /\ name[1] = c

\* tmpdir()/repo-<now>/repo
RepoPath == << << "t" >>, << "r", "0" >>, << "r" >> >>

\* path.join(dir, name)
Join(dir, name) == Append(dir, name)

\* fullPath.replace(baseDir + '/', ''): the first place where baseDir and a
\* separator occur is cut out of the path
ReplaceFirst(fullPath, baseDir) ==
    LET n == Len(baseDir)
        at == { i \in 1..Len(fullPath) :
                    /\ i + n <= Len(fullPath)
                    /\ SubSeq(fullPath, i, i + n - 1) = baseDir }
    IN  IF at = {} THEN fullPath
        ELSE LET first == CHOOSE i \in at : \A j \in at : i <= j
             IN  SubSeq(fullPath, 1, first - 1) \o
                 SubSeq(fullPath, first + n, Len(fullPath))

\* getAllFiles(dir, baseDir), entries being what readdir(dir) returns
RECURSIVE getAllFiles(_, _, _)
getAllFiles(entries, dir, baseDir) ==
    IF entries = << >> THEN << >>
    ELSE LET entry == Head(entries)
             fullPath == Join(dir, entry.name)
             relativePath == ReplaceFirst(fullPath, baseDir)
             found == IF StartsWith(entry.name, ".") THEN << >>
                      ELSE IF entry.kind = "dir"
                           THEN getAllFiles(entry.entries, fullPath, baseDir)
                      ELSE IF entry.kind = "file" THEN << relativePath >>
                      ELSE << >>
         IN  found \o getAllFiles(Tail(entries), dir, baseDir)

\* a checkout was cloned, list_repo_files has not walked it yet
WalkInit ==
    /\ walk \in [tree : Dirs(MaxDepth), files : { << >> }, pc : {"cloned"}]
    /\ AgentIdle /\ ServerIdle /\ ClientIdle /\ OthersIdle

\* listRepoFiles: getAllFiles(repoPath, repoPath)
ListFiles ==
    /\ walk.pc = "cloned"
    /\ walk' = [walk EXCEPT !.files = getAllFiles(walk.tree, RepoPath, RepoPath),
                            !.pc = "listed"]
    /\ UNCHANGED <<agentVars, serverVars, clientVars, otherVars>>

WalkNext == ListFiles

WalkSpec == WalkInit /\ [][WalkNext]_vars

----------------------------------------------------------------------------
(* The extension host (panel.ts, audioRecorder.ts, the message handler and *)
(* the callbacks) and the webview script during code generation            *)

\* what the user does in the webview: clicks on Generate Code and on Connect
MaxClicks == 2

\* a message posted to the webview: id is the result being handled when it
\* was posted, audio the result whose audio it plays (0: none). On a
\* code_generation_result, audio records what the backend's message carried.
Post(type, id, audio) == [type |-> type, id |-> id, audio |-> audio]

\* a message of the backend on the socket
WireMessage(type, id, audio) == [type |-> type, id |-> id, audio |-> audio]

\* the user is connected to a repository; the socket may be open already
\* from an earlier recording
ClientInit ==
    /\ webview = [loading |-> FALSE, button |-> TRUE, isConnected |-> TRUE]
    /\ commands = 0
    /\ posted = << >>
    /\ seen = 0
    /\ ws \in {"none", "open"}
    /\ wire = << >>
    /\ awaiting = 0
    /\ pendingAudio = 0
    /\ results = 0
    /\ clicks = 0
    /\ AgentIdle /\ ServerIdle /\ WalkIdle /\ OthersIdle

\* generateCode of the webview script: a click on the enabled button
Click ==
    /\ clicks < MaxClicks
    /\ webview.button
    /\ clicks' = clicks + 1
    /\ IF webview.isConnected
       THEN /\ webview' = [webview EXCEPT !.loading = TRUE, !.button = FALSE]
            /\ commands' = commands + 1
       ELSE UNCHANGED <<webview, commands>>
    /\ UNCHANGED <<posted, seen, ws, wire, awaiting, pendingAudio, results>>
    /\ UNCHANGED <<agentVars, serverVars, walkVars, otherVars>>

\* connect of the webview script after a disconnect, the request succeeding
Reconnect ==
    /\ clicks < MaxClicks
    /\ ~webview.isConnected
    /\ clicks' = clicks + 1
    /\ webview' = [webview EXCEPT !.isConnected = TRUE, !.button = TRUE]
    /\ UNCHANGED <<commands, posted, seen, ws, wire, awaiting, pendingAudio,
                   results>>
    /\ UNCHANGED <<agentVars, serverVars, walkVars, otherVars>>

\* handleGenerateCode: codeGenStarted, then AudioRecorder.sendMessage, which
\* connects first when the socket is not open; a failure gives codeGenError
ExtensionGenerates(connects) ==
    /\ commands > 0
    /\ commands' = commands - 1
    /\ IF ws = "open" \/ connects
       THEN /\ ws' = "open"
            /\ awaiting' = awaiting + 1
            /\ posted' = Append(posted, Post("codeGenStarted", 0, 0))
       ELSE /\ posted' = posted \o << Post("codeGenStarted", 0, 0),
                                      Post("codeGenError", 0, 0) >>
            /\ UNCHANGED <<ws, awaiting>>
    /\ UNCHANGED <<webview, seen, wire, pendingAudio, results, clicks>>
    /\ UNCHANGED <<agentVars, serverVars, walkVars, otherVars>>

\* what the backend may answer to a generate_code message
Answers == {"result", "result_with_audio", "error"}

\* the backend answers one generate_code message
BackendReplies(kind) ==
    /\ ws = "open"
    /\ awaiting > 0
    /\ awaiting' = awaiting - 1
    /\ IF kind = "error"
       THEN /\ wire' = Append(wire, WireMessage("error", 0, 0))
            /\ UNCHANGED results
       ELSE /\ results' = results + 1
            /\ wire' = Append(wire,
                  WireMessage("code_generation_result", results',
                              IF kind = "result_with_audio" THEN results' ELSE 0))
    /\ UNCHANGED <<webview, commands, posted, seen, ws, pendingAudio, clicks>>
    /\ UNCHANGED <<agentVars, serverVars, walkVars, otherVars>>

\* the 'close' handler of the socket, after everything sent before the close
\* has arrived: the disconnect callback posts disconnected
SocketCloses ==
    /\ ws = "open"
    /\ wire = << >>
    /\ ws' = "none"
    /\ awaiting' = 0
    /\ posted' = Append(posted, Post("disconnected", 0, 0))
    /\ UNCHANGED <<webview, commands, seen, wire, pendingAudio, results, clicks>>
    /\ UNCHANGED <<agentVars, serverVars, walkVars, otherVars>>

\* the code-generation callback up to its await: the result goes to the
\* webview, handleSavePatches saves synchronously and posts patchesSaved
CallbackToAwait(m) ==
    << Post("code_generation_result", m.id, m.audio),
       Post("patchesSaved", m.id, 0) >>

\* the callback after its await: pending audio is played and cleared
CallbackAfterAwait(m, pending) ==
    [posts |-> IF pending # 0 THEN << Post("playAudio", m.id, pending) >>
               ELSE << >>,
     pendingAudio |-> 0]

\* the audio playback callback: setPendingAudio
AudioPlayback(m, pending) == IF m.audio # 0 THEN m.audio ELSE pending

\* a message handler that awaits the code-generation callback before it
\* calls the audio playback callback
handleWebSocketMessageAwaiting(m, pending) ==
    IF m.type = "code_generation_result"
    THEN LET after == CallbackAfterAwait(m, pending)
         IN  [posts |-> CallbackToAwait(m) \o after.posts,
              pendingAudio |-> AudioPlayback(m, after.pendingAudio)]
    ELSE [posts |-> << >>, pendingAudio |-> pending]

\* handleWebSocketMessage: for a code_generation_result the callback runs
\* up to its await, the audio playback callback stores the audio, and the
\* rest of the callback runs before the next message is handled; an error
\* message of the backend has no case
handleWebSocketMessage(m, pending) ==
    IF m.type = "code_generation_result"
    THEN LET after == CallbackAfterAwait(m, AudioPlayback(m, pending))
         IN  [posts |-> CallbackToAwait(m) \o after.posts,
              pendingAudio |-> after.pendingAudio]
    ELSE [posts |-> << >>, pendingAudio |-> pending]

\* the 'message' handler of the socket
ExtensionReceives ==
    /\ wire # << >>
    /\ LET done == handleWebSocketMessage(Head(wire), pendingAudio)
       IN  /\ posted' = posted \o done.posts
           /\ pendingAudio' = done.pendingAudio
    /\ wire' = Tail(wire)
    /\ UNCHANGED <<webview, commands, seen, ws, awaiting, results, clicks>>
    /\ UNCHANGED <<agentVars, serverVars, walkVars, otherVars>>

\* handleMessage of the webview script, on the loading animation, the
\* Generate Code button and isConnected
handleMessage(w, m) ==
    CASE m.type = "codeGenStarted" -> [w EXCEPT !.loading = TRUE]
      [] m.type \in {"patchesSaved", "codeGenError"} ->
            [w EXCEPT !.loading = FALSE, !.button = TRUE]
      [] m.type = "disconnected" ->
            [w EXCEPT !.isConnected = FALSE, !.button = FALSE]
      [] OTHER -> w

\* the webview handles the next message the extension posted
WebviewReceives ==
    /\ seen < Len(posted)
    /\ seen' = seen + 1
    /\ webview' = handleMessage(webview, posted[seen'])
    /\ UNCHANGED <<commands, posted, ws, wire, awaiting, pendingAudio, results,
                   clicks>>
    /\ UNCHANGED <<agentVars, serverVars, walkVars, otherVars>>

\* a pending generate_code message is answered, or the socket closes on it
BackendSettles ==
    /\ awaiting > 0
    /\ \/ \E kind \in Answers : BackendReplies(kind)
       \/ SocketCloses

ClientNext ==
    \/ Click
    \/ Reconnect
    \/ \E connects \in BOOLEAN : ExtensionGenerates(connects)
    \/ \E kind \in Answers : BackendReplies(kind)
    \/ SocketCloses
    \/ ExtensionReceives
    \/ WebviewReceives

ClientSpec == ClientInit /\ [][ClientNext]_vars

\* everything but the user moves on: commands and messages are handled, and
\* the backend answers every generate_code message or the socket closes
ClientFairSpec ==
    /\ ClientSpec
    /\ WF_vars(\E connects \in BOOLEAN : ExtensionGenerates(connects))
    /\ WF_vars(BackendSettles)
    /\ WF_vars(ExtensionReceives)
    /\ WF_vars(WebviewReceives)

----------------------------------------------------------------------------
(* C21 .. C30 *)

\* C21: without a credential, and so without a client created before,
\* generateCodeFromConversation fails before any chat-completion request is
\* issued and before any clone is started, and it is not called again for
\* the same message: the error becomes the summary of the result.
C21_NoCredentialFailsFirst ==
    ~env.OPENAI_API_KEY =>
        /\ ~openaiClient
        /\ \A i \in 1..Len(handlers) :
              /\ handlers[i].requests = 0
              /\ handlers[i].clonesStarted = 0
              /\ handlers[i].agentCalls <= 1
              /\ handlers[i].pc # "agent"
              /\ handlers[i].agentCalls = 1 =>
                    handlers[i].summary = "agent_error"

C21_Witness ==
    /\ ~env.OPENAI_API_KEY
    /\ \E i \in 1..Len(handlers) :
          /\ handlers[i].agentCalls = 1
          /\ handlers[i].pc = "done"
          /\ handlers[i].replies =
                << Reply("code_generation_result", "agent_error", "empty", FALSE) >>

\* C22: when the query finds no conversation, handleCodeGeneration replies
\* with the fixed 'No conversations found' summary and an empty files list,
\* and generateCodeFromConversation is never called, so no model request is
\* made.
C22_NoConversationsNoAgent ==
    \A i \in 1..Len(handlers) :
        handlers[i].found = "empty" =>
            /\ handlers[i].pc = "done"
            /\ handlers[i].agentCalls = 0
            /\ handlers[i].requests = 0
            /\ \/ handlers[i].lost /\ handlers[i].replies = << >>
               \/ handlers[i].replies =
                     << Reply("code_generation_result", "no_conversations",
                              "empty", FALSE) >>

C22_Witness ==
    \E i \in 1..Len(handlers) :
        /\ handlers[i].found = "empty"
        /\ handlers[i].replies =
              << Reply("code_generation_result", "no_conversations", "empty",
                       FALSE) >>

\* the rows written for the k-th recognition result
RowsOf(k) == { j \in 1..Len(rows) : rows[j].result = k }

SavedFor(k) ==
    \A j \in RowsOf(k) :
        /\ rows[j].repoId = streams[heard[k].stream].info.repoId
        /\ rows[j].userName = streams[heard[k].stream].info.userName
        /\ rows[j].branch = streams[heard[k].stream].info.branch
        /\ rows[j].transcription = heard[k].text

\* C25 (as claimed): each final recognition result with non-blank text is
\* written to storage once, with the repository, user and branch the stream
\* was started with; interim results are never written.
C25_FinalResultsWrittenOnce ==
    \A k \in 1..Len(heard) :
        /\ SavedFor(k)
        /\ Cardinality(RowsOf(k)) =
              IF heard[k].isFinal /\ heard[k].text # "blank" THEN 1 ELSE 0

\* C25 (amended): each final recognition result with non-blank text is passed
\* to putTranscription once, with the repository, user and branch the stream
\* was started with, and is a row of the table exactly when that INSERT
\* succeeded; a failed INSERT is logged and the result is not stored.
\* Interim and blank results are never written.
C25_FinalResultsSavedAtMostOnce ==
    \A k \in 1..Len(heard) :
        /\ SavedFor(k)
        /\ heard[k].saved \in
              IF heard[k].isFinal /\ heard[k].text # "blank"
              THEN {"written", "failed"} ELSE {"skipped"}
        /\ Cardinality(RowsOf(k)) = IF heard[k].saved = "written" THEN 1 ELSE 0

C25_Witness ==
    /\ Len(heard) = 2
    /\ heard[1].isFinal /\ heard[1].saved = "written"
    /\ ~heard[2].isFinal /\ heard[2].text = "words"
    /\ Len(rows) = 1
    /\ connectionInfo # streams[heard[1].stream].info

LiveStreams == { s \in 1..Len(streams) : ~streams[s].ended }

\* C29 (as claimed): on a connection at most one recognition stream exists
\* that was created and not yet ended, and it is the one the connection
\* state holds.
C29_AtMostOneLiveStream ==
    /\ Cardinality(LiveStreams) <= 1
    /\ \A s \in LiveStreams : s = recognizeStream

\* every entry of a tree with its path relative to the root
RECURSIVE EntriesBelow(_, _)
EntriesBelow(entries, prefix) ==
    UNION { { [path |-> Append(prefix, entries[i].name), kind |-> entries[i].kind] }
            \cup EntriesBelow(entries[i].entries, Append(prefix, entries[i].name))
            : i \in 1..Len(entries) }

HasDotComponent(path) == \E i \in 1..Len(path) : path[i][1] = "."

\* the regular files of the checkout whose path has no dot component
VisibleFiles(tree) ==
    { e.path : e \in { x \in EntriesBelow(tree, << >>) :
                          x.kind = "file" /\ ~HasDotComponent(x.path) } }

\* C23: list_repo_files returns every regular file of the checkout whose path
\* has no component starting with '.', exactly once and relative to the
\* repository root, and no other path: none with a dot component, no
\* directory and no symbolic link.
C23_ListsVisibleFilesOnce ==
    walk.pc = "listed" =>
        /\ \A p \in VisibleFiles(walk.tree) :
              Cardinality({ i \in 1..Len(walk.files) : walk.files[i] = p }) = 1
        /\ \A i \in 1..Len(walk.files) : walk.files[i] \in VisibleFiles(walk.tree)

C23_Witness ==
    /\ walk.pc = "listed"
    /\ walk.files = << << NameD, NameD, NameF >>, << NameD, NameF >>, << NameF >> >>
    /\ \E e \in EntriesBelow(walk.tree, << >>) :
          e.kind = "file" /\ e.path = << NameD, DotEnv >>
    /\ \E e \in EntriesBelow(walk.tree, << >>) :
          e.kind = "file" /\ e.path = << DotGit, NameF >>

\* a pending git clone settles
CloneCompletes ==
    \/ \E s \in Slots : CloneSucceeds(s)
    \/ \E s \in Slots, leftover \in BOOLEAN : CloneFails(s, leftover)

\* every other step of the invocation
StepsButClone ==
    \/ \E batch \in ToolCallBatches : ModelRequestsTools(batch)
    \/ ProcessToolCall
    \/ ToolCallSettles
    \/ FinishRound
    \/ \E content \in FinalContents, tickAt \in 0..2 : ModelAnswers(content, tickAt)
    \/ \E i \in FileSlots : PatchTaskSettles(i)
    \/ PatchesSettle
    \/ \E s \in Slots, ok \in BOOLEAN : ListSettles(s, ok)
    \/ \E s \in Slots, ok \in BOOLEAN : ReadSettles(s, ok)
    \/ \E s \in Slots, ok \in BOOLEAN : RmSettles(s, ok)
    \/ OtherInvocationCleans

\* every awaited call returns, except that git may never finish a clone:
\* cloneRepository awaits git.clone and sets no timer beside it
UnboundedCloneSpec == Spec /\ WF_vars(StepsButClone)

\* C24 (as claimed): a clone that does not complete is abandoned after a
\* fixed time budget and reported as a failure, so every access that waits
\* for a clone gets past it and the invocation ends.
C24_CloneAbandoned ==
    /\ \A s \in Slots : (acc[s].pc = "cloning") ~> (acc[s].pc # "cloning")
    /\ <>Terminated

\* C26 (as claimed): whenever generateFilePatch diffs against an empty
\* original content, the file does not exist in the repository branch.
C26_EmptyOriginalOnlyForNewFile ==
    \A i \in 1..Len(tasks) :
        (tasks[i].pc = "fulfilled" /\ tasks[i].patch.patch = "diff_empty") =>
            tasks[i].entry.kind = "absent"

\* C28 (as claimed): after the user triggered code generation the webview
\* eventually leaves the loading state, also when the backend answers with
\* an error message or the socket closes before a result arrives.
C28_LoadingEnds == webview.loading ~> ~webview.loading

\* the places in the log of posts of type t about result r
PostsOf(t, r) ==
    { j \in 1..Len(posted) : posted[j].type = t /\ posted[j].id = r }

\* C30: the audio a code_generation_result carries is played exactly once,
\* while that result is handled and after its patchesSaved was posted to the
\* webview; a result without audio plays nothing, and no audio is kept back
\* for a later result.
C30_AudioPlayedOnceAfterSave ==
    /\ pendingAudio = 0
    /\ \A k \in 1..Len(posted) :
          posted[k].type = "code_generation_result" =>
             LET r == posted[k].id
                 plays == { j \in 1..Len(posted) :
                               /\ posted[j].type = "playAudio"
                               /\ r \in {posted[j].id, posted[j].audio} }
             IN  IF posted[k].audio = 0 THEN plays = {}
                 ELSE /\ Cardinality(plays) = 1
                      /\ \A j \in plays :
                            /\ posted[j].id = r /\ posted[j].audio = r
                            /\ \E s \in PostsOf("patchesSaved", r) : k < s /\ s < j

C30_Witness ==
    /\ results = 2
    /\ wire = << >>
    /\ \E k \in PostsOf("code_generation_result", 1) : posted[k].audio = 1
    /\ \E k \in PostsOf("code_generation_result", 2) : posted[k].audio = 0
    /\ PostsOf("playAudio", 1) # {}
    /\ PostsOf("playAudio", 2) = {}

----------------------------------------------------------------------------
(* The AudioRecorder of the extension host (audioRecorder.ts): its         *)
(* operations, the promises they return and the events of its WebSockets   *)

\* how many operations are called on the recorder
MaxCalls == 3

\* what panel.ts passes as connectionInfo (never null, handleStartRecording
\* returns before the call otherwise)
RecorderInfos == { Info("r1", "ann", "dev"), Info("r1", "bob", "main") }

\* a WebSocket object made by connectWebSocket: its readyState, whether the
\* handlers of connectWebSocket are still attached, the call whose promise
\* the open and error handlers settle, how often its close handler invoked
\* the disconnect callback, whether disconnect() was called while the
\* recorder held it, and whether the backend or the network ended it
Socket(waiter) ==
    [readyState |-> "CONNECTING", listeners |-> TRUE, waiter |-> waiter,
     notified |-> 0, disconnected |-> FALSE, remote |-> FALSE]

\* an operation called on the recorder and the state of what it returned:
\* "waiting" (promise pending), "resolved", "rejected", "returned" (void)
Call(op, state, error) == [op |-> op, state |-> state, error |-> error]

\* the recorder with the objects it refers to, as one value
World ==
    [recorder |-> recorder, sockets |-> sockets, mics |-> mics,
     frames |-> frames]

Becomes(w) ==
    /\ recorder' = w.recorder
    /\ sockets' = w.sockets
    /\ mics' = w.mics
    /\ frames' = w.frames

\* this.ws && this.ws.readyState === WebSocket.OPEN
IsOpen(w) ==
    /\ w.recorder.ws # 0
    /\ w.sockets[w.recorder.ws].readyState = "OPEN"

\* this.ws.send of a JSON message
Send(w, type) ==
    [w EXCEPT !.frames = Append(@, [socket |-> w.recorder.ws, type |-> type])]

\* a stopRecording that leaves isRecording set
stopRecordingKeepingFlag(w) ==
    IF ~w.recorder.isRecording
    THEN w
    ELSE LET w1 == IF w.recorder.micInstance # 0
                   THEN [w EXCEPT !.mics[w.recorder.micInstance].state = "stopped",
                                  !.recorder.micInstance = 0]
                   ELSE w
             w2 == IF w1.recorder.micInputStream # 0
                   THEN [w1 EXCEPT !.mics[w1.recorder.micInputStream].listening = FALSE,
                                   !.recorder.micInputStream = 0]
                   ELSE w1
         IN  IF IsOpen(w2) THEN Send(w2, "stop") ELSE w2

\* stopRecording
stopRecording(w) ==
    IF ~w.recorder.isRecording
    THEN w
    ELSE LET w1 == IF w.recorder.micInstance # 0
                   THEN [w EXCEPT !.mics[w.recorder.micInstance].state = "stopped",
                                  !.recorder.micInstance = 0]
                   ELSE w
             w2 == IF w1.recorder.micInputStream # 0
                   THEN [w1 EXCEPT !.mics[w1.recorder.micInputStream].listening = FALSE,
                                   !.recorder.micInputStream = 0]
                   ELSE w1
             w3 == IF IsOpen(w2) THEN Send(w2, "stop") ELSE w2
         IN  [w3 EXCEPT !.recorder.isRecording = FALSE]

\* ws.close(): a socket that is open or connecting starts closing
Closed(readyState) ==
    IF readyState \in {"OPEN", "CONNECTING"} THEN "CLOSING" ELSE readyState

\* connectWebSocket up to the point where the promise is returned: the
\* socket held so far loses its handlers and is closed, a new one is made
\* whose open and error handlers settle the promise of the caller
connectWebSocket(w, caller) ==
    LET s  == w.recorder.ws
        w1 == IF s # 0
              THEN [w EXCEPT !.sockets[s].listeners = FALSE,
                             !.sockets[s].readyState = Closed(@),
                             !.recorder.ws = 0]
              ELSE w
    IN  [w1 EXCEPT !.sockets = Append(@, Socket(caller)),
                   !.recorder.ws = Len(w1.sockets) + 1]

\* startRecording from mic() on: works tells whether micInstance.start()
\* returns or throws
startMicrophone(w, works) ==
    LET m  == Len(w.mics) + 1
        w1 == [w EXCEPT !.mics = Append(@, [state |-> "created",
                                            listening |-> FALSE]),
                        !.recorder.micInstance = m,
                        !.recorder.micInputStream = m]
        w2 == IF IsOpen(w1) THEN Send(w1, "start") ELSE w1
        w3 == [w2 EXCEPT !.mics[m].listening = TRUE]
    IN  IF works
        THEN [w3 EXCEPT !.mics[m].state = "started",
                        !.recorder.isRecording = TRUE]
        ELSE w3

\* sendMessage after ensureConnected
sendAfterConnect(w) == IF IsOpen(w) THEN Send(w, "generate_code") ELSE w

\* the handler of 'close' that connectWebSocket attaches to socket s
onClose(w, s) ==
    LET w1 == IF w.recorder.isRecording THEN stopRecording(w) ELSE w
    IN  [w1 EXCEPT !.sockets[s].notified = @ + 1, !.recorder.ws = 0]

\* disconnect
disconnect(w) ==
    LET w1 == stopRecording(w)
        s  == w1.recorder.ws
    IN  IF s # 0
        THEN [w1 EXCEPT !.sockets[s].listeners = FALSE,
                        !.sockets[s].disconnected = TRUE,
                        !.sockets[s].readyState = Closed(@),
                        !.recorder.ws = 0]
        ELSE w1

\* no operation was called yet; the disconnect callback is set by the panel
RecorderInit ==
    /\ RecorderIdle
    /\ AgentIdle /\ ServerIdle /\ ClientIdle /\ WalkIdle
    /\ DatabaseIdle /\ PatchesIdle

\* startRecording is called (toggleSpeech while getRecordingState() is
\* false, or any other caller)
StartRecording(info, works) ==
    /\ Len(issued) < MaxCalls
    /\ IF recorder.isRecording
       THEN /\ issued' = Append(issued, Call("startRecording", "rejected",
                                             "Already recording"))
            /\ UNCHANGED <<recorder, sockets, mics, frames>>
       ELSE LET w == [World EXCEPT !.recorder.connectionInfo = info]
            IN  IF ~IsOpen(w)
                THEN /\ Becomes(connectWebSocket(w, Len(issued) + 1))
                     /\ issued' = Append(issued, Call("startRecording",
                                                      "waiting", ""))
                ELSE /\ Becomes(startMicrophone(w, works))
                     /\ issued' = Append(issued,
                            IF works
                            THEN Call("startRecording", "resolved", "")
                            ELSE Call("startRecording", "rejected", "mic"))
    /\ UNCHANGED <<agentVars, serverVars, clientVars, walkVars,
                   databaseVars, patchVars>>

\* stopRecording is called
StopRecording ==
    /\ Len(issued) < MaxCalls
    /\ Becomes(stopRecording(World))
    /\ issued' = Append(issued, Call("stopRecording", "returned", ""))
    /\ UNCHANGED <<agentVars, serverVars, clientVars, walkVars,
                   databaseVars, patchVars>>

\* sendMessage is called (handleGenerateCode)
SendMessage ==
    /\ Len(issued) < MaxCalls
    /\ IF ~IsOpen(World)
       THEN /\ Becomes(connectWebSocket(World, Len(issued) + 1))
            /\ issued' = Append(issued, Call("sendMessage", "waiting", ""))
       ELSE /\ Becomes(sendAfterConnect(World))
            /\ issued' = Append(issued, Call("sendMessage", "resolved", ""))
    /\ UNCHANGED <<agentVars, serverVars, clientVars, walkVars,
                   databaseVars, patchVars>>

\* disconnect is called (the webview's disconnect message, dispose)
Disconnect ==
    /\ Len(issued) < MaxCalls
    /\ Becomes(disconnect(World))
    /\ issued' = Append(issued, Call("disconnect", "returned", ""))
    /\ UNCHANGED <<agentVars, serverVars, clientVars, walkVars,
                   databaseVars, patchVars>>

\* the call whose promise the handlers of socket s settle, 0 when the
\* handlers are gone or the promise is settled already
Waiter(s) ==
    IF /\ sockets[s].listeners
       /\ sockets[s].waiter # 0
       /\ issued[sockets[s].waiter].state = "waiting"
    THEN sockets[s].waiter
    ELSE 0

\* socket s emits 'open': resolve() runs and, before any other event, the
\* rest of the operation that awaited the promise
SocketOpens(s, works) ==
    /\ s \in 1..Len(sockets)
    /\ sockets[s].readyState = "CONNECTING"
    /\ LET w == [World EXCEPT !.sockets[s].readyState = "OPEN"]
           c == Waiter(s)
       IN  IF c = 0
           THEN Becomes(w) /\ UNCHANGED issued
           ELSE IF issued[c].op = "startRecording"
           THEN /\ Becomes(startMicrophone(w, works))
                /\ issued' = [issued EXCEPT ![c] =
                       IF works
                       THEN Call("startRecording", "resolved", "")
                       ELSE Call("startRecording", "rejected", "mic")]
           ELSE /\ Becomes(sendAfterConnect(w))
                /\ issued' = [issued EXCEPT ![c] =
                       IF IsOpen(w)
                       THEN Call("sendMessage", "resolved", "")
                       ELSE Call("sendMessage", "rejected",
                                 "WebSocket is not connected")]
    /\ UNCHANGED <<agentVars, serverVars, clientVars, walkVars,
                   databaseVars, patchVars>>

\* the connection of socket s cannot be established: it emits 'error' and
\* then 'close'
SocketFails(s) ==
    /\ s \in 1..Len(sockets)
    /\ sockets[s].readyState = "CONNECTING"
    /\ LET w == [World EXCEPT !.sockets[s].readyState = "CLOSED",
                              !.sockets[s].remote = TRUE]
           c == Waiter(s)
       IN  /\ Becomes(IF sockets[s].listeners THEN onClose(w, s) ELSE w)
           /\ issued' = IF c = 0
                        THEN issued
                        ELSE [issued EXCEPT ![c].state = "rejected",
                                            ![c].error = "socket"]
    /\ UNCHANGED <<agentVars, serverVars, clientVars, walkVars,
                   databaseVars, patchVars>>

\* the backend or the network ends the connection of socket s: readyState
\* is CLOSING until the socket is closed
SocketClosing(s) ==
    /\ s \in 1..Len(sockets)
    /\ sockets[s].readyState = "OPEN"
    /\ sockets' = [sockets EXCEPT ![s].readyState = "CLOSING",
                                  ![s].remote = TRUE]
    /\ UNCHANGED <<recorder, mics, issued, frames>>
    /\ UNCHANGED <<agentVars, serverVars, clientVars, walkVars,
                   databaseVars, patchVars>>

\* socket s is closed and emits 'close'
SocketClosed(s) ==
    /\ s \in 1..Len(sockets)
    /\ sockets[s].readyState = "CLOSING"
    /\ LET w == [World EXCEPT !.sockets[s].readyState = "CLOSED"]
       IN  Becomes(IF sockets[s].listeners THEN onClose(w, s) ELSE w)
    /\ UNCHANGED issued
    /\ UNCHANGED <<agentVars, serverVars, clientVars, walkVars,
                   databaseVars, patchVars>>

\* what a socket does by itself once it exists
SocketSettles ==
    \E s \in 1..MaxCalls :
        \/ \E works \in BOOLEAN : SocketOpens(s, works)
        \/ SocketFails(s)
        \/ SocketClosed(s)

RecorderNext ==
    \/ \E info \in RecorderInfos, works \in BOOLEAN :
           StartRecording(info, works)
    \/ StopRecording
    \/ SendMessage
    \/ Disconnect
    \/ \E s \in 1..MaxCalls :
           \/ \E works \in BOOLEAN : SocketOpens(s, works)
           \/ SocketFails(s)
           \/ SocketClosing(s)
           \/ SocketClosed(s)

RecorderSpec == RecorderInit /\ [][RecorderNext]_vars

\* every connection attempt ends and every closing socket gets closed; the
\* user and the backend are free to do nothing
RecorderFairSpec == RecorderSpec /\ WF_vars(SocketSettles)

----------------------------------------------------------------------------
(* The database module of the backend (db/database.js): connectDatabase,   *)
(* getPool and closeDatabase on the module's pool variable                 *)

\* how many calls are made on the module
MaxDbCalls == 4

\* a Pool object: whether pool.connect() of connectDatabase is pending, has
\* succeeded ("yes") or failed ("no"), and whether pool.end() was called
\* ("ending") and has finished ("yes")
NewPool == [connected |-> "pending", ended |-> "no"]

\* a call on the module: p is the Pool object it created, returned or ends
\* (0: none); ready tells whether that object had been connected
\* successfully when the call was made
DbCall(op, state, p, ready) ==
    [op |-> op, state |-> state, pool |-> p, ready |-> ready]

\* getPool
getPool(p, all) ==
    IF p = 0
    THEN DbCall("getPool", "threw", 0, FALSE)
    ELSE DbCall("getPool", "returned", p, all[p].connected = "yes")

DatabaseInit ==
    /\ DatabaseIdle
    /\ AgentIdle /\ ServerIdle /\ ClientIdle /\ WalkIdle
    /\ RecorderIdle /\ PatchesIdle

\* connectDatabase up to its await
ConnectDatabase ==
    /\ Len(dbCalls) < MaxDbCalls
    /\ IF pool # 0
       THEN /\ dbCalls' = Append(dbCalls,
                 DbCall("connectDatabase", "resolved", 0, FALSE))
            /\ UNCHANGED <<pool, pools>>
       ELSE /\ pools' = Append(pools, NewPool)
            /\ pool' = Len(pools) + 1
            /\ dbCalls' = Append(dbCalls,
                 DbCall("connectDatabase", "waiting", Len(pools) + 1, FALSE))
    /\ UNCHANGED <<agentVars, serverVars, clientVars, walkVars,
                   recorderVars, patchVars>>

\* pool.connect() of call i settles: the client is released and the call
\* resolves, or the catch block logs the error and throws it again
ConnectSettles(i, ok) ==
    /\ i \in 1..Len(dbCalls)
    /\ dbCalls[i].op = "connectDatabase"
    /\ dbCalls[i].state = "waiting"
    /\ pools' = [pools EXCEPT ![dbCalls[i].pool].connected =
                     IF ok THEN "yes" ELSE "no"]
    /\ dbCalls' = [dbCalls EXCEPT ![i].state =
                     IF ok THEN "resolved" ELSE "rejected"]
    /\ UNCHANGED pool
    /\ UNCHANGED <<agentVars, serverVars, clientVars, walkVars,
                   recorderVars, patchVars>>

\* getPool is called
GetPool ==
    /\ Len(dbCalls) < MaxDbCalls
    /\ dbCalls' = Append(dbCalls, getPool(pool, pools))
    /\ UNCHANGED <<pool, pools>>
    /\ UNCHANGED <<agentVars, serverVars, clientVars, walkVars,
                   recorderVars, patchVars>>

\* closeDatabase up to its await; pool.end() rejects at once on a pool that
\* is ending already
CloseDatabase ==
    /\ Len(dbCalls) < MaxDbCalls
    /\ IF pool = 0
       THEN /\ dbCalls' = Append(dbCalls,
                 DbCall("closeDatabase", "resolved", 0, FALSE))
            /\ UNCHANGED pools
       ELSE IF pools[pool].ended # "no"
       THEN /\ dbCalls' = Append(dbCalls,
                 DbCall("closeDatabase", "rejected", pool, FALSE))
            /\ UNCHANGED pools
       ELSE /\ pools' = [pools EXCEPT ![pool].ended = "ending"]
            /\ dbCalls' = Append(dbCalls,
                 DbCall("closeDatabase", "waiting", pool, FALSE))
    /\ UNCHANGED pool
    /\ UNCHANGED <<agentVars, serverVars, clientVars, walkVars,
                   recorderVars, patchVars>>

\* pool.end() of call i finishes and closeDatabase sets pool to null
CloseSettles(i) ==
    /\ i \in 1..Len(dbCalls)
    /\ dbCalls[i].op = "closeDatabase"
    /\ dbCalls[i].state = "waiting"
    /\ pools' = [pools EXCEPT ![dbCalls[i].pool].ended = "yes"]
    /\ pool' = 0
    /\ dbCalls' = [dbCalls EXCEPT ![i].state = "resolved"]
    /\ UNCHANGED <<agentVars, serverVars, clientVars, walkVars,
                   recorderVars, patchVars>>

DatabaseNext ==
    \/ ConnectDatabase
    \/ GetPool
    \/ CloseDatabase
    \/ \E i \in 1..MaxDbCalls :
           \/ \E ok \in BOOLEAN : ConnectSettles(i, ok)
           \/ CloseSettles(i)

DatabaseSpec == DatabaseInit /\ [][DatabaseNext]_vars

----------------------------------------------------------------------------
(* savePatches of the extension (utils/fileOperations.ts): the patch files *)
(* it writes for the files of a code generation result                     *)

\* how many files a result carries
MaxFiles == 2

\* file names as sequences of characters, the empty name included; two of
\* them differ only in a slash
PatchNames ==
    { << >>, <<"a", "/", "b">>, <<"a", "_", "b">>, <<"c">> }

\* patch texts, the empty one included
PatchTexts == {"", "p1", "p2"}

\* result.files: every sequence of up to MaxFiles files
ResultFiles ==
    UNION { [1..n -> [filename : PatchNames, patch : PatchTexts]] :
                n \in 0..MaxFiles }

\* getSafeFilename: filename.replace(/\//g, '_')
getSafeFilename(filename) ==
    [i \in 1..Len(filename) |->
        IF filename[i] = "/" THEN "_" ELSE filename[i]]

\* `${safeFilename}.patch`
PatchFilename(filename) == getSafeFilename(filename) \o <<".patch">>

\* !file.filename || !file.patch
Invalid(file) == file.filename = << >> \/ file.patch = ""

\* fs.writeFileSync(patchPath, file.patch): the directory is a set of
\* files, a file of that name is replaced
WriteFile(dir, name, content) ==
    { f \in dir : f.name # name } \cup { [name |-> name, content |-> content] }

\* the loop of savePatches over result.files from index i on, with
\* savePatchFile for each file: s holds the patches directory and savedFiles
RECURSIVE SaveFrom(_, _, _)
SaveFrom(files, i, s) ==
    IF i > Len(files)
    THEN s
    ELSE IF Invalid(files[i])
    THEN SaveFrom(files, i + 1, s)
    ELSE SaveFrom(files, i + 1,
             [dir |-> WriteFile(s.dir, PatchFilename(files[i].filename),
                                files[i].patch),
              savedFiles |-> Append(s.savedFiles,
                                    PatchFilename(files[i].filename))])

\* savePatches is about to be called on a result; the workspace may have no
\* folder open, and the patches directory is empty
PatchesInit ==
    /\ patches \in [files : ResultFiles, workspaceFolder : BOOLEAN,
                    pc : {"called"}, dir : { {} }, savedFiles : { << >> }]
    /\ AgentIdle /\ ServerIdle /\ ClientIdle /\ WalkIdle
    /\ RecorderIdle /\ DatabaseIdle

\* savePatches
SavePatches ==
    /\ patches.pc = "called"
    /\ IF ~patches.workspaceFolder
       THEN patches' = [patches EXCEPT !.pc = "threw"]
       ELSE LET s == SaveFrom(patches.files, 1,
                              [dir |-> {}, savedFiles |-> << >>])
            IN  patches' = [patches EXCEPT !.pc = "returned",
                                           !.dir = s.dir,
                                           !.savedFiles = s.savedFiles]
    /\ UNCHANGED <<agentVars, serverVars, clientVars, walkVars,
                   recorderVars, databaseVars>>

PatchesNext == SavePatches

PatchesSpec == PatchesInit /\ [][PatchesNext]_vars

----------------------------------------------------------------------------
(* C31 .. C35 *)

\* the recorder holds a microphone instance that was started and not stopped
MicHeldAndStarted ==
    /\ recorder.micInstance # 0
    /\ mics[recorder.micInstance].state = "started"

\* the operation called in this step, its op "none" when no one was called
Issued(before, after) ==
    IF Len(after) = Len(before) + 1
    THEN after[Len(after)]
    ELSE Call("none", "", "")

\* C31: isRecording is true exactly when a microphone instance is held and
\* started; a startRecording call while recording is rejected with 'Already
\* recording' and changes no state, and a stopRecording call while not
\* recording changes no state and sends nothing.
C31_RecordingFlagAndGuards ==
    /\ [](recorder.isRecording <=> MicHeldAndStarted)
    /\ [][ LET c == Issued(issued, issued')
           IN  /\ (c.op = "startRecording" /\ recorder.isRecording) =>
                      /\ c.state = "rejected"
                      /\ c.error = "Already recording"
                      /\ UNCHANGED <<recorder, sockets, mics, frames>>
               /\ (c.op = "stopRecording" /\ ~recorder.isRecording) =>
                      UNCHANGED <<recorder, sockets, mics, frames>>
         ]_vars

\* stopRecording was called before anything was started, then a recording
\* was started and startRecording called again while it runs
C31_Witness ==
    /\ Len(issued) = 3
    /\ issued[1] = Call("stopRecording", "returned", "")
    /\ issued[2] = Call("startRecording", "resolved", "")
    /\ issued[3] = Call("startRecording", "rejected", "Already recording")
    /\ recorder.isRecording
    /\ MicHeldAndStarted

\* C32 (as claimed): every startRecording call eventually resolves or
\* rejects, also when a second startRecording, a sendMessage or a disconnect
\* is issued while the first call is still waiting for the WebSocket to open.
C32_StartRecordingSettles ==
    \A i \in 1..MaxCalls :
        (Len(issued) >= i /\ issued[i].op = "startRecording") ~>
            (Len(issued) >= i /\ issued[i].state \in {"resolved", "rejected"})

\* C33 (as claimed): when a WebSocket of the recorder that the backend or
\* the network ended gets closed and disconnect() was not called on it, then
\* right after the close isRecording is false, no microphone is running and
\* the disconnect callback was invoked exactly once for that socket.
C33_CloseStopsAndNotifiesOnce ==
    [][ \A s \in 1..Len(sockets) :
            ( /\ sockets[s].readyState # "CLOSED"
              /\ sockets'[s].readyState = "CLOSED"
              /\ sockets'[s].remote
              /\ ~sockets'[s].disconnected ) =>
                /\ ~recorder'.isRecording
                /\ \A m \in 1..Len(mics') : mics'[m].state # "started"
                /\ sockets'[s].notified = 1
      ]_vars

\* the call made in this step, its op "none" when no one was made
DbIssued(before, after) ==
    IF Len(after) = Len(before) + 1
    THEN after[Len(after)]
    ELSE DbCall("none", "", 0, FALSE)

\* C34 (as claimed): getPool returns a pool only when a connectDatabase call
\* has completed successfully on it; after a failed connection attempt
\* getPool throws, and a connectDatabase call made while no successfully
\* connected pool exists attempts the connection again.
C34_PoolOnlyAfterSuccessfulConnect ==
    /\ [](\A i \in 1..Len(dbCalls) :
              (dbCalls[i].op = "getPool" /\ dbCalls[i].state = "returned") =>
                  dbCalls[i].ready)
    /\ [][ LET c == DbIssued(dbCalls, dbCalls')
           IN  ( /\ c.op = "connectDatabase"
                 /\ pool # 0 => pools[pool].connected = "no" ) =>
                   (c.state = "waiting" /\ c.pool # 0)
         ]_vars

\* the files of the result that savePatches writes a patch for
Written == { i \in 1..Len(patches.files) : ~Invalid(patches.files[i]) }

\* C35 (as claimed): within one savePatches call, result files with distinct
\* filenames are written to distinct patch files: when the files written
\* have pairwise distinct filenames, each of them has its own patch file
\* with its own patch text, and the returned list names no file twice.
C35_DistinctNamesDistinctPatchFiles ==
    ( /\ patches.pc = "returned"
      /\ \A i, j \in Written :
             i # j => patches.files[i].filename # patches.files[j].filename )
    => /\ Cardinality(patches.dir) = Cardinality(Written)
       /\ \A i \in Written :
              \E f \in patches.dir : f.content = patches.files[i].patch
       /\ \A a, b \in 1..Len(patches.savedFiles) :
              a # b => patches.savedFiles[a] # patches.savedFiles[b]

====
